---- MODULE Spec2Model ----
(***************************************************************************)
(* Verification model of the pool-state and path-registry core of the      *)
(* cross-chain arbitrage backend:                                          *)
(*   - bot/models/path/registry.rs   MultichainPathRegistry, PathRegistry  *)
(*   - bot/models/pool/registry.rs   PoolRegistry                          *)
(*   - bot/models/pool/v2/v2.rs      UniswapV2Pool (constant product)      *)
(*   - bot/models/pool/v3/v3.rs      UniswapV3Pool (event application)     *)
(* Each component has its own specification (SpecPaths, SpecRegistry,      *)
(* SpecV2, SpecV3, SpecFetch, SpecLocks, SpecEvents, SpecCurve, SpecWide); *)
(* the variables of the other components stay at their initial value under *)
(* it.                                                                     *)
(*                                                                         *)
(* Option<T> is modelled as a sequence of length 0 (None) or 1 (Some).     *)
(* A panic (unwrap on None) is the result "panic", never a value.          *)
(***************************************************************************)
EXTENDS Integers, Sequences, FiniteSets, TLC

VARIABLES
    \* ---- MultichainPathRegistry -------------------------------------
    path_registry,   \* chain id -> Option(paths_cache); paths_cache: pool -> Option(entry)
    pathCalls,       \* number of set_paths calls made so far (bounds the run)
    pathPrev,        \* path_registry as it was before the last operation
    pathLast,        \* the last operation on the path registry and its result
    \* ---- PoolRegistry -----------------------------------------------
    by_address,      \* address -> Option(pool)
    by_type,         \* pool type -> Option(sequence of addresses)
    regLast,         \* the last operation on the pool registry and its result
    regHist,         \* per address: what add_pool / remove_pool last did to it
    \* ---- UniswapV2Pool ----------------------------------------------
    v2,              \* the pool: reserves, fee, last_updated
    v2Last,          \* the last operation on the V2 pool, its arguments and result
    \* ---- UniswapV3Pool ----------------------------------------------
    v3,              \* the pool: sqrt_price_x96, tick, liquidity, ticks, last_updated
    v3Last,          \* the last event applied to the V3 pool and its result
    \* ---- pool discovery (fetch_v2_pool, fetch_v3_pool) ---------------
    fetchIn,         \* what the chain answers to the reads of one discovery
    fetchOut,        \* what the discovery returned, NoFetch before it ran
    \* ---- PoolRegistry, its locks -----------------------------------
    taskPc,          \* task -> the await point the task is at
    taskArg,         \* task -> the addresses it still has to visit
    rwlocks,         \* lock -> [writer: Option(task), readers: set of tasks]
    poolMap,         \* the addresses by_address holds
    \* ---- UniswapV2Pool, the stable curve ----------------------------
    curveIn,         \* the arguments (x0, xy, y) of one get_y call
    curveOut,        \* what get_y returned, NoCurve before it ran
    \* ---- UniswapV2Pool, quotes at the width of U256 ------------------
    wideIn,          \* the pool, the token and the output one quote is asked for
    wideOut          \* what calculate_input and calculate_output returned

pathVars == <<path_registry, pathCalls, pathPrev, pathLast>>
regVars  == <<by_address, by_type, regLast, regHist>>
v2Vars   == <<v2, v2Last>>
v3Vars   == <<v3, v3Last>>
fetchVars == <<fetchIn, fetchOut>>
lockVars == <<taskPc, taskArg, rwlocks, poolMap>>
curveVars == <<curveIn, curveOut>>
wideVars == <<wideIn, wideOut>>
notPaths == <<wideVars, curveVars, lockVars, regVars, v2Vars, v3Vars, fetchVars>>
notReg   == <<wideVars, curveVars, lockVars, pathVars, v2Vars, v3Vars, fetchVars>>
notV2    == <<wideVars, curveVars, lockVars, pathVars, regVars, v3Vars, fetchVars>>
notV3    == <<wideVars, curveVars, lockVars, pathVars, regVars, v2Vars, fetchVars>>
notFetch == <<pathVars, regVars, v2Vars, v3Vars, lockVars, curveVars, wideVars>>
notLocks == <<pathVars, regVars, v2Vars, v3Vars, fetchVars, curveVars, wideVars>>
notCurve == <<pathVars, regVars, v2Vars, v3Vars, fetchVars, lockVars, wideVars>>
notWide  == <<pathVars, regVars, v2Vars, v3Vars, fetchVars, lockVars, curveVars>>
vars     == <<path_registry, pathCalls, pathPrev, pathLast, by_address, by_type, regLast,
              regHist, v2, v2Last, v3, v3Last, fetchIn, fetchOut, taskPc, taskArg,
              rwlocks, poolMap, curveIn, curveOut, wideIn, wideOut>>

None == <<>>
Some(x) == <<x>>
IsSome(o) == Len(o) = 1
Unwrap(o) == o[1]


(***************************************************************************)
(*                     PATH REGISTRY (path/registry.rs)                    *)
(***************************************************************************)

\* Input universe of the path registry: two chains, two tokens, two pools.
ChainIds == {1, 2}
Tokens == {"A", "B"}
Pools == {"P1", "P2"}

\* struct PoolDirection
PoolDirection(p, tin, tout) == [pool |-> p, token_in |-> tin, token_out |-> tout]

\* The paths a caller hands to set_paths in this model (type PoolPath).
PathA1  == << PoolDirection("P1", "A", "B") >>
\* two hops, the last (and only) pair of hops is not connected
PathA2x == << PoolDirection("P1", "A", "B"), PoolDirection("P2", "A", "B") >>
\* three hops, the first pair of hops is not connected
PathA3x == << PoolDirection("P2", "A", "B"), PoolDirection("P1", "A", "B"),
              PoolDirection("P2", "B", "A") >>
PathB1  == << PoolDirection("P2", "B", "A") >>
\* a path with no hop
PathE   == << >>

\* The (paths, anchor_token) pairs of the entries of a batch in this model.
EntryShapes ==
    { << <<PathA1>>, "A" >>,
      << <<PathA1, PathA2x>>, "A" >>,   \* two paths that start at the same pool
      << <<PathA3x>>, "A" >>,
      << <<PathE>>, "A" >>,
      << <<PathB1>>, "B" >>,
      << <<PathA1>>, "B" >> }           \* first hop does not start at the anchor

\* struct SingleChainPathsWithAnchorToken
SingleChainPathsWithAnchorToken(ps, c, a) ==
    [paths |-> ps, chain_id |-> c, anchor_token |-> a]

Entries ==
    { SingleChainPathsWithAnchorToken(s[1], c, s[2]) : s \in EntryShapes, c \in ChainIds }

\* The batches handed to set_paths: one or two chain entries.
Batches == { <<e>> : e \in Entries } \cup { <<e1, e2>> : e1 \in Entries, e2 \in Entries }

\* Largest number of set_paths calls in one run.
MaxCalls == 2

\* PathRegistry::new: an empty paths_cache.
NewPathRegistry == [p \in Pools |-> None]

\* PathRegistry::get_paths_for_pool
PathRegistry_get_paths_for_pool(cache, pool) == cache[pool]

\* PathRegistry::set_paths on one chain's cache: the new cache and the result
\* ("err_empty": "Path is empty").
\* The mutant appends to an existing entry instead of replacing it.
PathRegistry_set_paths_append(cache, pool, source_path, target_paths) ==
    IF source_path.paths = <<>> \/ target_paths = <<>>
    THEN [cache |-> cache, res |-> "err_empty"]
    ELSE IF IsSome(cache[pool])
    THEN [cache |-> [cache EXCEPT ![pool] =
                        Some(<< [source_path EXCEPT !.paths =
                                    Unwrap(cache[pool])[1].paths \o source_path.paths],
                                Unwrap(cache[pool])[2] \o target_paths >>)],
          res |-> "ok"]
    ELSE [cache |-> [cache EXCEPT ![pool] = Some(<<source_path, target_paths>>)],
          res |-> "ok"]

PathRegistry_set_paths(cache, pool, source_path, target_paths) ==
    IF source_path.paths = <<>> \/ target_paths = <<>>
    THEN [cache |-> cache, res |-> "err_empty"]
    ELSE [cache |-> [cache EXCEPT ![pool] = Some(<<source_path, target_paths>>)],
          res |-> "ok"]

\* The connectivity loop of set_paths: for i in 0..len-2 (0-based, end exclusive),
\* that is the pairs (i, i+1) for 1-based i in 1..len-2.
PathLoopOk(single_path) ==
    LET len == Len(single_path) IN
    IF len >= 2
    THEN \A i \in 1..(len - 2) : single_path[i].token_out = single_path[i + 1].token_in
    ELSE TRUE

\* The validation of one path of a chain entry, lines 92-105:
\* "ok", a returned error ("err_anchor": "First token in path is not the anchor
\* token", "err_path": "Path is not valid") or "panic" (first().unwrap() on no hop).
ValidatePath(single_path, anchor_token) ==
    IF Len(single_path) = 0 THEN "panic"
    ELSE IF single_path[1].token_in # anchor_token THEN "err_anchor"
    ELSE IF ~PathLoopOk(single_path) THEN "err_path"
    ELSE "ok"

\* The inner loop over path.paths, lines 91-115: the first path that does not
\* validate ends the call; otherwise the paths are grouped by first-hop pool.
RECURSIVE ValidatePaths(_, _, _)
ValidatePaths(ps, anchor_token, k) ==
    IF k > Len(ps) THEN "ok"
    ELSE LET r == ValidatePath(ps[k], anchor_token) IN
         IF r # "ok" THEN r ELSE ValidatePaths(ps, anchor_token, k + 1)

\* pool_to_path: the paths of an entry that start at pool, in the entry's order.
PoolToPath(ps, pool) == SelectSeq(ps, LAMBDA sp : Len(sp) > 0 /\ sp[1].pool = pool)
FirstPools(ps) == { ps[k][1].pool : k \in { j \in 1..Len(ps) : Len(ps[j]) > 0 } }

\* other_paths, lines 118-122: the entries of the batch on another chain.
OtherPaths(paths, chain_id) == SelectSeq(paths, LAMBDA p : p.chain_id # chain_id)

\* The writes of one chain entry, lines 124-138, over the pools of pool_to_path.
\* Every write of one entry gets the same target list and a non-empty source,
\* so either the first write fails ("Path is empty") or all succeed; the order
\* in which the HashMap yields the pools does not change the outcome.
RECURSIVE WriteEntry(_, _, _, _)
WriteEntry(cache, path, other_paths, pools) ==
    IF pools = {} THEN [cache |-> cache, res |-> "ok"]
    ELSE LET pool == CHOOSE p \in pools : TRUE
             w == PathRegistry_set_paths(cache, pool,
                     SingleChainPathsWithAnchorToken(PoolToPath(path.paths, pool),
                                                     path.chain_id, path.anchor_token),
                     other_paths)
         IN IF w.res # "ok" THEN w
            ELSE WriteEntry(w.cache, path, other_paths, pools \ {pool})

\* MultichainPathRegistry::set_paths, lines 86-142: the entries of the batch are
\* validated and written one after the other, from entry k on.
RECURSIVE SetPathsFrom(_, _, _)
SetPathsFrom(reg, paths, k) ==
    IF k > Len(paths) THEN [reg |-> reg, res |-> "ok"]
    ELSE LET path == paths[k]
             v == ValidatePaths(path.paths, path.anchor_token, 1)
         IN IF v # "ok" THEN [reg |-> reg, res |-> v]
            ELSE IF ~IsSome(reg[path.chain_id])
                 THEN [reg |-> reg, res |-> "panic"]   \* get_path_registry(..).unwrap()
            ELSE LET w == WriteEntry(Unwrap(reg[path.chain_id]), path,
                                     OtherPaths(paths, path.chain_id),
                                     FirstPools(path.paths))
                     reg2 == [reg EXCEPT ![path.chain_id] = Some(w.cache)]
                 IN IF w.res # "ok" THEN [reg |-> reg2, res |-> w.res]
                    ELSE SetPathsFrom(reg2, paths, k + 1)

\* MultichainPathRegistry::get_paths_for_pool, lines 144-155.
MultichainGetPathsForPool(reg, chain_id, pool) ==
    IF ~IsSome(reg[chain_id])
    THEN [kind |-> "panic", val |-> None]              \* get_path_registry(..).unwrap()
    ELSE [kind |-> "value", val |-> PathRegistry_get_paths_for_pool(Unwrap(reg[chain_id]), pool)]

NoBatch == <<>>
PathLastInit == [op |-> "new", batch |-> NoBatch, chain_id |-> 0, pool |-> "",
                 res |-> "ok", got |-> None]

\* MultichainPathRegistry::new
InitPaths ==
    /\ path_registry = [c \in ChainIds |-> None]
    /\ pathCalls = 0
    /\ pathPrev = [c \in ChainIds |-> None]
    /\ pathLast = PathLastInit

\* MultichainPathRegistry::new_path_registry
new_path_registry(chain_id) ==
    /\ path_registry' = [path_registry EXCEPT ![chain_id] =
            IF IsSome(@) THEN @ ELSE Some(NewPathRegistry)]
    /\ pathLast' = [PathLastInit EXCEPT !.op = "new_path_registry", !.chain_id = chain_id]
    /\ pathPrev' = path_registry
    /\ UNCHANGED <<pathCalls, notPaths>>

\* MultichainPathRegistry::remove_path_registry
remove_path_registry(chain_id) ==
    /\ path_registry' = [path_registry EXCEPT ![chain_id] = None]
    /\ pathLast' = [PathLastInit EXCEPT !.op = "remove_path_registry", !.chain_id = chain_id]
    /\ pathPrev' = path_registry
    /\ UNCHANGED <<pathCalls, notPaths>>

\* MultichainPathRegistry::set_paths
set_paths(paths) ==
    /\ pathCalls < MaxCalls
    /\ LET r == SetPathsFrom(path_registry, paths, 1) IN
        /\ path_registry' = r.reg
        /\ pathLast' = [PathLastInit EXCEPT !.op = "set_paths", !.batch = paths, !.res = r.res]
    /\ pathPrev' = path_registry
    /\ pathCalls' = pathCalls + 1
    /\ UNCHANGED notPaths

\* MultichainPathRegistry::get_paths_for_pool
get_paths_for_pool(chain_id, pool) ==
    /\ LET r == MultichainGetPathsForPool(path_registry, chain_id, pool) IN
        pathLast' = [PathLastInit EXCEPT !.op = "get_paths_for_pool", !.chain_id = chain_id,
                        !.pool = pool, !.res = IF r.kind = "panic" THEN "panic" ELSE "ok",
                        !.got = r.val]
    /\ pathPrev' = path_registry
    /\ UNCHANGED <<path_registry, pathCalls, notPaths>>

(***************************************************************************)
(*                     POOL REGISTRY (pool/registry.rs)                    *)
(***************************************************************************)

Addresses == {"a1", "a2"}
PoolTypes == {"UniswapV2", "UniswapV3"}

\* Largest length of one type's address list (add_pool pushes without limit).
MaxTypeLen == 3

\* A boxed pool as the registry sees it: pool.address() and pool.pool_type().
Pool(address, pool_type) == [address |-> address, pool_type |-> pool_type]
RegistryPools == { Pool(a, t) : a \in Addresses, t \in PoolTypes }

\* PoolRegistry::exists_pool
exists_pool(address_map, address) == IsSome(address_map[address])

\* PoolRegistry::get_pool
get_pool(address_map, address) == address_map[address]

\* filter_map(|addr| address_map.get(addr).map(Arc::clone)) over a list of addresses
RECURSIVE FilterMapPools(_, _)
FilterMapPools(addresses, address_map) ==
    IF addresses = <<>> THEN <<>>
    ELSE LET rest == FilterMapPools(Tail(addresses), address_map) IN
         IF IsSome(address_map[Head(addresses)])
         THEN <<Unwrap(address_map[Head(addresses)])>> \o rest
         ELSE rest

\* PoolRegistry::get_pools_by_type (get_v2_pools and get_v3_pools are the same
\* code with the type fixed).
get_pools_by_type(type_map, address_map, pool_type) ==
    IF IsSome(type_map[pool_type])
    THEN FilterMapPools(Unwrap(type_map[pool_type]), address_map)
    ELSE <<>>

\* PoolRegistry::get_addresses_by_type
get_addresses_by_type(type_map, pool_type) ==
    IF IsSome(type_map[pool_type]) THEN Unwrap(type_map[pool_type]) ELSE <<>>

\* addresses.retain(|&a| a != address)
Retain(addresses, address) == SelectSeq(addresses, LAMBDA a : a # address)

\* PoolRegistry::add_pool: the two maps after the call.
AddPoolMaps(address_map, type_map, pool) ==
    [by_address |-> [address_map EXCEPT ![pool.address] = Some(pool)],
     by_type |-> [type_map EXCEPT ![pool.pool_type] =
                    Some((IF IsSome(@) THEN Unwrap(@) ELSE <<>>) \o <<pool.address>>)]]

\* The type map after remove_pool has taken `pool` out of the address map,
\* lines 101-107.
PruneTypeMap(type_map, pool) ==
    IF IsSome(type_map[pool.pool_type])
    THEN LET kept == Retain(Unwrap(type_map[pool.pool_type]), pool.address) IN
         [type_map EXCEPT ![pool.pool_type] = IF kept = <<>> THEN None ELSE Some(kept)]
    ELSE type_map

\* The mutant reads the pool from the address map and leaves it there.
RemovePoolMapsKeepsAddress(address_map, type_map, address) ==
    IF ~IsSome(address_map[address])
    THEN [by_address |-> address_map, by_type |-> type_map, ret |-> None]
    ELSE [by_address |-> address_map,
          by_type |-> PruneTypeMap(type_map, Unwrap(address_map[address])),
          ret |-> address_map[address]]

\* PoolRegistry::remove_pool: the two maps after the call and the value returned.
RemovePoolMaps(address_map, type_map, address) ==
    IF ~IsSome(address_map[address])
    THEN [by_address |-> address_map, by_type |-> type_map, ret |-> None]
    ELSE [by_address |-> [address_map EXCEPT ![address] = None],
          by_type |-> PruneTypeMap(type_map, Unwrap(address_map[address])),
          ret |-> address_map[address]]

RegLastInit == [op |-> "new", address |-> "", pool_type |-> "", found |-> FALSE, pools |-> <<>>]
RegHistInit == [a \in Addresses |-> [state |-> "never", pool_type |-> ""]]

\* PoolRegistry::new
InitRegistry ==
    /\ by_address = [a \in Addresses |-> None]
    /\ by_type = [t \in PoolTypes |-> None]
    /\ regLast = RegLastInit
    /\ regHist = RegHistInit

\* PoolRegistry::add_pool
add_pool(pool) ==
    /\ Len(get_addresses_by_type(by_type, pool.pool_type)) < MaxTypeLen
    /\ LET r == AddPoolMaps(by_address, by_type, pool) IN
        /\ by_address' = r.by_address
        /\ by_type' = r.by_type
    /\ regLast' = [RegLastInit EXCEPT !.op = "add_pool", !.address = pool.address,
                                      !.pool_type = pool.pool_type]
    /\ regHist' = [regHist EXCEPT ![pool.address] =
                        [state |-> "added", pool_type |-> pool.pool_type]]
    /\ UNCHANGED notReg

\* PoolRegistry::remove_pool
remove_pool(address) ==
    /\ LET r == RemovePoolMaps(by_address, by_type, address) IN
        /\ by_address' = r.by_address
        /\ by_type' = r.by_type
        /\ regLast' = [RegLastInit EXCEPT !.op = "remove_pool", !.address = address,
                                          !.found = IsSome(r.ret)]
    /\ regHist' = [regHist EXCEPT ![address] =
                        IF @.state = "added" THEN [@ EXCEPT !.state = "removed"] ELSE @]
    /\ UNCHANGED notReg

\* PoolRegistry::exists_pool, as a call whose answer is recorded
ExistsPoolCall(address) ==
    /\ regLast' = [RegLastInit EXCEPT !.op = "exists_pool", !.address = address,
                                      !.found = exists_pool(by_address, address)]
    /\ UNCHANGED <<by_address, by_type, regHist, notReg>>

\* PoolRegistry::get_pools_by_type, as a call whose answer is recorded
GetPoolsByTypeCall(pool_type) ==
    /\ regLast' = [RegLastInit EXCEPT !.op = "get_pools_by_type", !.pool_type = pool_type,
                        !.pools = get_pools_by_type(by_type, by_address, pool_type)]
    /\ UNCHANGED <<by_address, by_type, regHist, notReg>>

(***************************************************************************)
(*              V2 POOL, constant product (pool/v2/v2.rs)                  *)
(* Amounts are U256 in the code; the model's amounts stay far below 2^256, *)
(* so no product wraps and saturating_mul never saturates.  Only the       *)
(* V2PoolType::UniswapV2 branch of the quote functions is modelled.        *)
(***************************************************************************)

FEE_DENOMINATOR == 1000000

\* U256 arithmetic is exact, while the integers of the model checker are 32 bits
\* wide.  Every quotient the quote functions compute has FEE_DENOMINATOR or
\* FEE_DENOMINATOR - fee as a factor of its numerator and of each term of its
\* denominator, so the model divides both constants by their greatest common
\* divisor: numerator and denominator shrink by the same factor and the quotient
\* rounded down is the one the code computes.
RECURSIVE Gcd(_, _)
Gcd(a, b) == IF b = 0 THEN a ELSE Gcd(b, a % b)
\* U256::from(FEE_DENOMINATOR), reduced
FeeDenominator(fee) == FEE_DENOMINATOR \div Gcd(FEE_DENOMINATOR, FEE_DENOMINATOR - fee)
\* U256::from(FEE_DENOMINATOR) - self.fee, reduced
FeeComplement(fee) == (FEE_DENOMINATOR - fee) \div Gcd(FEE_DENOMINATOR, FEE_DENOMINATOR - fee)

\* Largest reserve and largest swap / quote amount of the model.
MaxReserve == 5
MaxAmount == 3
\* The readings of the clock (chrono::Utc::now().timestamp()).
Times == {0, 1}
\* The reserves a Sync log carries in this model.
SyncReserves == {0, 1, MaxReserve}

\* The fees of the pools of the model (numerators over FEE_DENOMINATOR).
FeeSet == {0, 3000}

\* token0 and token1 of the pool, and a token that is not in the pool.
V2Tokens == {"T0", "T1", "TX"}

Ok(v) == [ok |-> TRUE, val |-> v]
Err == [ok |-> FALSE, val |-> 0]

\* UniswapV2Pool::is_valid
is_valid(p) == p.reserve0 # 0 /\ p.reserve1 # 0

\* The mutant leaves amount_in_with_fee out of the denominator.
calculate_output_0_to_1_no_input_in_denominator(p, amount_in) ==
    IF amount_in = 0 THEN Err
    ELSE IF ~is_valid(p) THEN Err
    ELSE LET amount_in_with_fee == amount_in * FeeComplement(p.fee)
             numerator == amount_in_with_fee * p.reserve1
             denominator == p.reserve0 * FeeDenominator(p.fee)
             output == numerator \div denominator
         IN IF output >= p.reserve1 THEN Err ELSE Ok(output)

\* UniswapV2Pool::calculate_output_0_to_1
calculate_output_0_to_1(p, amount_in) ==
    IF amount_in = 0 THEN Err
    ELSE IF ~is_valid(p) THEN Err
    ELSE LET amount_in_with_fee == amount_in * FeeComplement(p.fee)
             numerator == amount_in_with_fee * p.reserve1
             denominator == p.reserve0 * FeeDenominator(p.fee) + amount_in_with_fee
             output == numerator \div denominator
         IN IF output >= p.reserve1 THEN Err ELSE Ok(output)

\* The mutant multiplies by the reserve of the token that comes in.
calculate_output_1_to_0_wrong_reserve(p, amount_in) ==
    IF amount_in = 0 THEN Err
    ELSE IF ~is_valid(p) THEN Err
    ELSE LET amount_in_with_fee == amount_in * FeeComplement(p.fee)
             numerator == amount_in_with_fee * p.reserve1
             denominator == p.reserve1 * FeeDenominator(p.fee) + amount_in_with_fee
             output == numerator \div denominator
         IN IF output >= p.reserve0 THEN Err ELSE Ok(output)

\* UniswapV2Pool::calculate_output_1_to_0
calculate_output_1_to_0(p, amount_in) ==
    IF amount_in = 0 THEN Err
    ELSE IF ~is_valid(p) THEN Err
    ELSE LET amount_in_with_fee == amount_in * FeeComplement(p.fee)
             numerator == amount_in_with_fee * p.reserve0
             denominator == p.reserve1 * FeeDenominator(p.fee) + amount_in_with_fee
             output == numerator \div denominator
         IN IF output >= p.reserve0 THEN Err ELSE Ok(output)

\* The mutant drops the "+ 1" that rounds the input up.
calculate_input_0_to_1_no_round_up(p, amount_out) ==
    IF amount_out = 0 THEN Err
    ELSE IF ~is_valid(p) THEN Err
    ELSE IF amount_out >= p.reserve1 THEN Err
    ELSE LET numerator == p.reserve0 * amount_out * FeeDenominator(p.fee)
             denominator == (p.reserve1 - amount_out) * FeeComplement(p.fee)
         IN Ok(numerator \div denominator)

\* UniswapV2Pool::calculate_input_0_to_1
calculate_input_0_to_1(p, amount_out) ==
    IF amount_out = 0 THEN Err
    ELSE IF ~is_valid(p) THEN Err
    ELSE IF amount_out >= p.reserve1 THEN Err
    ELSE LET numerator == p.reserve0 * amount_out * FeeDenominator(p.fee)
             denominator == (p.reserve1 - amount_out) * FeeComplement(p.fee)
         IN Ok((numerator \div denominator) + 1)

\* UniswapV2Pool::calculate_input_1_to_0
calculate_input_1_to_0(p, amount_out) ==
    IF amount_out = 0 THEN Err
    ELSE IF ~is_valid(p) THEN Err
    ELSE IF amount_out >= p.reserve0 THEN Err
    ELSE LET numerator == p.reserve1 * amount_out * FeeDenominator(p.fee)
             denominator == (p.reserve0 - amount_out) * FeeComplement(p.fee)
         IN Ok((numerator \div denominator) + 1)

\* PoolInterface::calculate_output for UniswapV2Pool
calculate_output(p, token_in, amount_in) ==
    IF token_in = p.token0 THEN calculate_output_0_to_1(p, amount_in)
    ELSE IF token_in = p.token1 THEN calculate_output_1_to_0(p, amount_in)
    ELSE Err

\* PoolInterface::calculate_input for UniswapV2Pool
calculate_input(p, token_out, amount_out) ==
    IF token_out = p.token0 THEN calculate_input_1_to_0(p, amount_out)
    ELSE IF token_out = p.token1 THEN calculate_input_0_to_1(p, amount_out)
    ELSE Err

\* The mutant forgets to add amount_in to the reserve of token_in.
apply_swap_drops_amount_in(p, token_in, amount_in, amount_out, t) ==
    IF token_in = p.token0
    THEN IF amount_out >= p.reserve1 THEN [pool |-> p, ok |-> FALSE]
         ELSE [pool |-> [p EXCEPT !.reserve1 = @ - amount_out, !.last_updated = t],
               ok |-> TRUE]
    ELSE IF token_in = p.token1
    THEN IF amount_out >= p.reserve0 THEN [pool |-> p, ok |-> FALSE]
         ELSE [pool |-> [p EXCEPT !.reserve0 = @ - amount_out, !.last_updated = t],
               ok |-> TRUE]
    ELSE [pool |-> p, ok |-> FALSE]

\* PoolInterface::apply_swap for UniswapV2Pool, at clock reading t:
\* the pool after the call and whether it returned Ok.
apply_swap(p, token_in, amount_in, amount_out, t) ==
    IF token_in = p.token0
    THEN IF amount_out >= p.reserve1 THEN [pool |-> p, ok |-> FALSE]
         ELSE [pool |-> [p EXCEPT !.reserve0 = @ + amount_in, !.reserve1 = @ - amount_out,
                                  !.last_updated = t],
               ok |-> TRUE]
    ELSE IF token_in = p.token1
    THEN IF amount_out >= p.reserve0 THEN [pool |-> p, ok |-> FALSE]
         ELSE [pool |-> [p EXCEPT !.reserve1 = @ + amount_in, !.reserve0 = @ - amount_out,
                                  !.last_updated = t],
               ok |-> TRUE]
    ELSE [pool |-> p, ok |-> FALSE]

\* UniswapV2Pool::update_reserves, at clock reading t
update_reserves_accumulates(p, reserve0, reserve1, t) ==
    [p EXCEPT !.reserve0 = @ + reserve0, !.reserve1 = @ + reserve1, !.last_updated = t]

update_reserves(p, reserve0, reserve1, t) ==
    [p EXCEPT !.reserve0 = reserve0, !.reserve1 = reserve1, !.last_updated = t]

\* The logs a V2 pool is handed: the two Sync shapes (uint112 and uint256
\* reserves), the V2 Swap, a topic the pool does not know, and a Sync topic
\* whose payload does not decode.
V2Logs ==
    { [topic |-> tp, decodes |-> TRUE, reserve0 |-> r0, reserve1 |-> r1] :
        tp \in {"IUniswapV2Pair::Sync", "IV2PairUint256::Sync"},
        r0 \in SyncReserves, r1 \in SyncReserves }
    \cup { [topic |-> tp, decodes |-> FALSE, reserve0 |-> 0, reserve1 |-> 0] :
        tp \in {"IUniswapV2Pair::Sync", "IV2PairUint256::Sync"} }
    \cup { [topic |-> tp, decodes |-> TRUE, reserve0 |-> 0, reserve1 |-> 0] :
        tp \in {"IUniswapV2Pair::Swap", "unknown"} }

v2_apply_log_touches_unapplied(p, log, t) ==
    IF log.topic \in {"IUniswapV2Pair::Sync", "IV2PairUint256::Sync"}
    THEN IF ~log.decodes THEN [pool |-> p, ok |-> FALSE]
         ELSE [pool |-> update_reserves(p, log.reserve0, log.reserve1, t), ok |-> TRUE]
    ELSE [pool |-> [p EXCEPT !.last_updated = t], ok |-> TRUE]

\* EventApplicable::apply_log for UniswapV2Pool, at clock reading t
v2_apply_log(p, log, t) ==
    IF log.topic \in {"IUniswapV2Pair::Sync", "IV2PairUint256::Sync"}
    THEN IF ~log.decodes THEN [pool |-> p, ok |-> FALSE]       \* log.log_decode()?
         ELSE [pool |-> update_reserves(p, log.reserve0, log.reserve1, t), ok |-> TRUE]
    ELSE [pool |-> p, ok |-> TRUE]

\* UniswapV2Pool::new
V2Pool(reserve0, reserve1, fee, t) ==
    [pool_type |-> "UniswapV2", token0 |-> "T0", token1 |-> "T1",
     reserve0 |-> reserve0, reserve1 |-> reserve1, fee |-> fee,
     last_updated |-> t, created_at |-> t]

NoLog == [topic |-> "", decodes |-> TRUE, reserve0 |-> 0, reserve1 |-> 0]
V2LastInit(p) == [op |-> "new", token |-> "", amount_in |-> 0, amount_out |-> 0,
                  log |-> NoLog, ok |-> TRUE, val |-> 0, prev |-> p, replay |-> FALSE]

\* The pool of the specification's worked example: reserves (1000, 1000), fee 0.3%.
ExamplePool == V2Pool(1000, 1000, 3000, 0)
\* The amounts calculate_output is asked to quote: the small ones and the
\* example's amountIn.
QuoteAmounts == (0..MaxAmount) \cup {100}

\* A pool as fetch_v2_pool hands it over: any reserves, a fee below the denominator.
InitV2 ==
    \E p \in { V2Pool(r0, r1, fee, 0) : r0 \in 0..MaxReserve, r1 \in 0..MaxReserve,
                                        fee \in FeeSet } \cup {ExamplePool} :
        /\ v2 = p
        /\ v2Last = V2LastInit(p)

\* calculate_output, as a call whose result is recorded
CalculateOutputCall(token_in, amount_in) ==
    /\ LET r == calculate_output(v2, token_in, amount_in) IN
        v2Last' = [V2LastInit(v2) EXCEPT !.op = "calculate_output", !.token = token_in,
                        !.amount_in = amount_in, !.ok = r.ok, !.val = r.val]
    /\ UNCHANGED <<v2, notV2>>

\* calculate_input, as a call whose result is recorded
CalculateInputCall(token_out, amount_out) ==
    /\ LET r == calculate_input(v2, token_out, amount_out) IN
        v2Last' = [V2LastInit(v2) EXCEPT !.op = "calculate_input", !.token = token_out,
                        !.amount_out = amount_out, !.ok = r.ok, !.val = r.val]
    /\ UNCHANGED <<v2, notV2>>

\* apply_swap with the caller's amounts
ApplySwapCall(token_in, amount_in, amount_out, t) ==
    /\ LET r == apply_swap(v2, token_in, amount_in, amount_out, t) IN
        /\ r.pool.reserve0 <= MaxReserve /\ r.pool.reserve1 <= MaxReserve
        /\ v2' = r.pool
        /\ v2Last' = [V2LastInit(v2) EXCEPT !.op = "apply_swap", !.token = token_in,
                        !.amount_in = amount_in, !.amount_out = amount_out, !.ok = r.ok]
    /\ UNCHANGED notV2

\* apply_log
V2ApplyLogCall(log, t) ==
    /\ LET r == v2_apply_log(v2, log, t) IN
        /\ v2' = r.pool
        /\ v2Last' = [V2LastInit(v2) EXCEPT !.op = "apply_log", !.log = log, !.ok = r.ok,
                        !.replay = (v2Last.op = "apply_log" /\ v2Last.log = log)]
    /\ UNCHANGED notV2

(***************************************************************************)
(*        V2 POOL, the stable curve (k, f, d, get_y in pool/v2/v2.rs)      *)
(* The amounts are U256.  exp18 is 10^18: a division by it is two          *)
(* divisions by 10^9, which is the same floor.                             *)
(***************************************************************************)

Exp9 == 1000000000

\* n / exp18
DivExp18(n) == (n \div Exp9) \div Exp9

\* UniswapV2Pool::f
curve_f(x0, y) == DivExp18(DivExp18(x0 * y) * (DivExp18(x0 * x0) + DivExp18(y * y)))

\* UniswapV2Pool::d
curve_d(x0, y) == DivExp18(3 * x0 * DivExp18(y * y)) + DivExp18(DivExp18(x0 * x0) * x0)

\* UniswapV2Pool::k of a Stable pool whose decimals0 and decimals1 are 10^18, as
\* fetch_v2_pool builds every pool: x * exp18 / decimals0 is x, so k is f.
curve_k(x, y) == curve_f(x, y)

CurveValue(y) == [kind |-> "value", y |-> y]
CurveErr == [kind |-> "err", y |-> 0]
CurvePanic == [kind |-> "panic", y |-> 0]
NoCurve == [kind |-> "none", y |-> 0]

\* get_y, with n iterations of its loop left.  Dividing by d(x0, y) = 0 panics
\* (Uint's "/" asserts a non-zero divisor).
RECURSIVE get_y_loop(_, _, _, _)
get_y_loop(x0, xy, y, n) ==
    IF n = 0 THEN CurveErr                                  \* Err(anyhow!("!y"))
    ELSE LET kk == curve_f(x0, y) IN
         IF curve_d(x0, y) = 0 THEN CurvePanic
         ELSE IF kk < xy
         THEN LET dy == ((xy - kk) * Exp9 * Exp9) \div curve_d(x0, y) IN
              IF dy = 0
              THEN IF curve_k(x0, y + 1) > xy THEN CurveValue(y + 1)
                   ELSE get_y_loop(x0, xy, y + 1, n - 1)
              ELSE get_y_loop(x0, xy, y + dy, n - 1)
         ELSE LET dy == ((kk - xy) * Exp9 * Exp9) \div curve_d(x0, y) IN
              IF dy = 0
              THEN IF kk = xy \/ curve_f(x0, y - 1) < xy THEN CurveValue(y)
                   ELSE get_y_loop(x0, xy, y - 1, n - 1)
              ELSE get_y_loop(x0, xy, y - dy, n - 1)

\* UniswapV2Pool::get_y
get_y(x0, xy, y) == get_y_loop(x0, xy, y, 255)

\* The arguments calculate_output hands to get_y on a Stable pool with reserves
\* of 0, 1 or 1000 units: x0 = reserve_a + amount_in_parsed, xy = k(reserves),
\* y = reserve_b; and the same with a product of 1 or 1000.
CurveInputs ==
    { [x0 |-> x0, xy |-> xy, y |-> y] :
        x0 \in {0, 1, 2, 1000, 1100}, xy \in {0, 1, 1000}, y \in {0, 1, 999, 1000, 1001} }

IdleCurve ==
    /\ curveIn = [x0 |-> 0, xy |-> 0, y |-> 0]
    /\ curveOut = NoCurve

InitCurve ==
    /\ curveIn \in CurveInputs
    /\ curveOut = NoCurve

\* get_y, applied to the arguments of this run
GetYCall ==
    /\ curveOut = NoCurve
    /\ curveOut' = get_y(curveIn.x0, curveIn.xy, curveIn.y)
    /\ UNCHANGED <<curveIn, notCurve>>

(***************************************************************************)
(*   V2 QUOTES AT THE WIDTH OF U256 (pool/v2/v2.rs, 124-145, 166-189,      *)
(*   278-342)                                                              *)
(* reserve0, reserve1, fee and the amounts are U256. Here a U256 is its 32 *)
(* bytes, least significant first, so that reserves of the size of a real  *)
(* pool (10^24) can be quoted: the operators +, - and * of U256 wrap at    *)
(* 2^256, saturating_mul stops at U256::MAX, / panics on a zero divisor.   *)
(* Only the UniswapV2 arm of the match on pool_type is modelled.           *)
(***************************************************************************)

\* The bytes of a U256 and the base of one byte.
Limbs == 32
Base == 256

\* The bytes of the number whose i-th byte column sums to cols[i], from column
\* i on with the carry of the columns below; what leaves the last column is
\* dropped (the wrap).
RECURSIVE Carry(_, _, _)
Carry(cols, i, carry) ==
    IF i > Len(cols) THEN <<>>
    ELSE LET s == cols[i] + carry IN <<s % Base>> \o Carry(cols, i + 1, s \div Base)

\* The element of a set of one element. The operators below bind their operands
\* (x \in {a}) before they compute with them, so that an operand that is itself
\* a product or a quotient is computed once and not once per byte read.
The(S) == CHOOSE r \in S : TRUE

\* U256::from(n), n a small number
U256From(n) == Carry([i \in 1..Limbs |-> IF i = 1 THEN n ELSE 0], 1, 0)
\* U256::MAX
U256Max == [i \in 1..Limbs |-> Base - 1]
\* U256::is_zero
IsZeroU256(a) == \A x \in {a} : \A i \in 1..Len(x) : x[i] = 0
\* a < b
LtU256(a, b) ==
    \E x \in {a}, y \in {b} :
        \E i \in 1..Len(x) : x[i] < y[i] /\ \A j \in (i + 1)..Len(x) : x[j] = y[j]

\* a + b, wrapping
WrappingAdd(a, b) ==
    The({ Carry([i \in 1..Len(x) |-> x[i] + y[i]], 1, 0) : x \in {a}, y \in {b} })
\* a - b, wrapping: a + (not b) + 1
WrappingSub(a, b) ==
    The({ Carry([i \in 1..Len(x) |-> x[i] + (Base - 1) - y[i]], 1, 1) : x \in {a}, y \in {b} })

\* The sum of the byte products a[i] * b[k - i + 1] of column k, from i on.
RECURSIVE ColSum(_, _, _, _)
ColSum(a, b, k, i) ==
    IF i > k \/ i > Len(a) THEN 0
    ELSE (IF k - i + 1 <= Len(b) THEN a[i] * b[k - i + 1] ELSE 0) + ColSum(a, b, k, i + 1)

\* The full product a * b, on Len(a) + Len(b) bytes.
WideMul(a, b) ==
    The({ Carry([k \in 1..(Len(x) + Len(y)) |-> ColSum(x, y, k, 1)], 1, 0) :
            x \in {a}, y \in {b} })
\* The product does not fit a U256.
Overflows(w) == \E x \in {w} : \E i \in (Limbs + 1)..Len(x) : x[i] # 0
\* a * b, wrapping
WrappingMul(a, b) == SubSeq(WideMul(a, b), 1, Limbs)
\* a.saturating_mul(b)
saturating_mul(a, b) ==
    The({ IF Overflows(w) THEN U256Max ELSE SubSeq(w, 1, Limbs) : w \in {WideMul(a, b)} })

\* Long division, the bits of one byte of the dividend from bit down to 0: the
\* remainder takes the bit in, the divisor is taken off it when it fits, and q
\* collects the bits of the quotient. rem and den have one byte more than a U256.
RECURSIVE DivBits(_, _, _, _, _)
DivBits(rem, den, byte, bit, q) ==
    IF bit < 0 THEN [rem |-> rem, q |-> q]
    ELSE LET b == (byte \div (2 ^ bit)) % 2
             shifted == Carry([i \in 1..Len(rem) |-> 2 * rem[i] + (IF i = 1 THEN b ELSE 0)],
                              1, 0)
         IN IF LtU256(shifted, den) THEN DivBits(shifted, den, byte, bit - 1, 2 * q)
            ELSE DivBits(WrappingSub(shifted, den), den, byte, bit - 1, 2 * q + 1)

\* Long division, the bytes i down to 1 of the dividend: the bytes of the quotient
\* (the byte r.q of this step is settled before the bytes below it).
RECURSIVE DivBytes(_, _, _, _)
DivBytes(num, den, i, rem) ==
    IF i = 0 THEN <<>>
    ELSE LET r == DivBits(rem, den, num[i], 7, 0)
         IN IF r.q < Base THEN DivBytes(num, den, i - 1, r.rem) \o <<r.q>> ELSE <<>>

\* a / b for b # 0, rounded down
DivU256(a, b) ==
    The({ DivBytes(x, y \o <<0>>, Limbs, [i \in 1..(Limbs + 1) |-> 0]) : x \in {a}, y \in {b} })

\* Result<U256>, and the panic of a division by zero.
WideOk(v) == [kind |-> "ok", val |-> v]
WideErr == [kind |-> "err", val |-> U256From(0)]
WidePanic == [kind |-> "panic", val |-> U256From(0)]

\* UniswapV2Pool::calculate_output_0_to_1
calculate_output_0_to_1_U256(p, amount_in) ==
    IF IsZeroU256(amount_in) THEN WideErr
    ELSE IF IsZeroU256(p.reserve0) \/ IsZeroU256(p.reserve1) THEN WideErr
    ELSE LET amount_in_with_fee ==
                 saturating_mul(amount_in, WrappingSub(U256From(FEE_DENOMINATOR), p.fee))
             numerator == WrappingMul(amount_in_with_fee, p.reserve1)
             denominator == WrappingAdd(WrappingMul(p.reserve0, U256From(FEE_DENOMINATOR)),
                                        amount_in_with_fee)
         IN IF IsZeroU256(denominator) THEN WidePanic
            ELSE LET output == DivU256(numerator, denominator)
                 IN IF ~LtU256(output, p.reserve1) THEN WideErr ELSE WideOk(output)

\* UniswapV2Pool::calculate_output_1_to_0
calculate_output_1_to_0_U256(p, amount_in) ==
    IF IsZeroU256(amount_in) THEN WideErr
    ELSE IF IsZeroU256(p.reserve0) \/ IsZeroU256(p.reserve1) THEN WideErr
    ELSE LET amount_in_with_fee ==
                 saturating_mul(amount_in, WrappingSub(U256From(FEE_DENOMINATOR), p.fee))
             numerator == WrappingMul(amount_in_with_fee, p.reserve0)
             denominator == WrappingAdd(WrappingMul(p.reserve1, U256From(FEE_DENOMINATOR)),
                                        amount_in_with_fee)
         IN IF IsZeroU256(denominator) THEN WidePanic
            ELSE LET output == DivU256(numerator, denominator)
                 IN IF ~LtU256(output, p.reserve0) THEN WideErr ELSE WideOk(output)

\* UniswapV2Pool::calculate_input_0_to_1
calculate_input_0_to_1_U256(p, amount_out) ==
    IF IsZeroU256(amount_out) THEN WideErr
    ELSE IF IsZeroU256(p.reserve0) \/ IsZeroU256(p.reserve1) THEN WideErr
    ELSE IF ~LtU256(amount_out, p.reserve1) THEN WideErr
    ELSE LET numerator == WrappingMul(WrappingMul(p.reserve0, amount_out),
                                      U256From(FEE_DENOMINATOR))
             denominator == WrappingMul(WrappingSub(p.reserve1, amount_out),
                                        WrappingSub(U256From(FEE_DENOMINATOR), p.fee))
         IN IF IsZeroU256(denominator) THEN WidePanic
            ELSE WideOk(WrappingAdd(DivU256(numerator, denominator), U256From(1)))

\* UniswapV2Pool::calculate_input_1_to_0
calculate_input_1_to_0_U256(p, amount_out) ==
    IF IsZeroU256(amount_out) THEN WideErr
    ELSE IF IsZeroU256(p.reserve0) \/ IsZeroU256(p.reserve1) THEN WideErr
    ELSE IF ~LtU256(amount_out, p.reserve0) THEN WideErr
    ELSE LET numerator == WrappingMul(WrappingMul(p.reserve1, amount_out),
                                      U256From(FEE_DENOMINATOR))
             denominator == WrappingMul(WrappingSub(p.reserve0, amount_out),
                                        WrappingSub(U256From(FEE_DENOMINATOR), p.fee))
         IN IF IsZeroU256(denominator) THEN WidePanic
            ELSE WideOk(WrappingAdd(DivU256(numerator, denominator), U256From(1)))

\* PoolInterface::calculate_output for UniswapV2Pool
calculate_output_U256(p, token_in, amount_in) ==
    IF token_in = p.token0 THEN calculate_output_0_to_1_U256(p, amount_in)
    ELSE IF token_in = p.token1 THEN calculate_output_1_to_0_U256(p, amount_in)
    ELSE WideErr

\* PoolInterface::calculate_input for UniswapV2Pool
calculate_input_U256(p, token_out, amount_out) ==
    IF token_out = p.token0 THEN calculate_input_1_to_0_U256(p, amount_out)
    ELSE IF token_out = p.token1 THEN calculate_input_0_to_1_U256(p, amount_out)
    ELSE WideErr

\* UniswapV2Pool::new, the fields the quotes read
WidePool(reserve0, reserve1, fee) ==
    [token0 |-> "T0", token1 |-> "T1", reserve0 |-> reserve0, reserve1 |-> reserve1,
     fee |-> fee]

\* 10^24: a million tokens of 18 decimals.
MillionTokens ==
    WrappingMul(WrappingMul(U256From(1000000), U256From(1000000)),
                WrappingMul(U256From(1000000), U256From(1000000)))
\* The reserves of the pools quoted at this width, and the outputs asked for:
\* nothing, one unit, half of the large reserve, and all but one unit of a reserve.
WideReserves == {U256From(2), U256From(1000), MillionTokens}
WideAmounts ==
    {U256From(0), U256From(1), U256From(999),
     DivU256(MillionTokens, U256From(2)), WrappingSub(MillionTokens, U256From(1))}

NoWide == [kind |-> "none"]

\* No quote at this width is asked for in the other specifications.
IdleWide ==
    /\ wideIn = [pool |-> WidePool(U256From(0), U256From(0), U256From(0)),
                 token_out |-> "", amount_out |-> U256From(0)]
    /\ wideOut = NoWide

InitWide ==
    /\ wideIn \in [pool : { WidePool(r0, r1, U256From(fee)) :
                                r0 \in WideReserves, r1 \in WideReserves, fee \in FeeSet },
                   token_out : V2Tokens, amount_out : WideAmounts]
    /\ wideOut = NoWide

\* The token of the pool that is not tk.
OtherToken(p, tk) == IF tk = p.token0 THEN p.token1 ELSE p.token0

\* calculate_input for the output asked for, then calculate_output for the input
\* it returned
QuoteInputThenOutput ==
    /\ wideOut = NoWide
    /\ LET x == calculate_input_U256(wideIn.pool, wideIn.token_out, wideIn.amount_out)
       IN wideOut' = [kind |-> "quoted", input |-> x,
                      output |-> IF x.kind = "ok"
                                 THEN calculate_output_U256(wideIn.pool,
                                          OtherToken(wideIn.pool, wideIn.token_out), x.val)
                                 ELSE WideErr]
    /\ UNCHANGED <<wideIn, notWide>>

(***************************************************************************)
(*              V3 POOL, event application (pool/v3/v3.rs)                 *)
(* liquidity and liquidity_gross are u128, liquidity_net is i128; the      *)
(* model's amounts stay far below their limits, so saturating_add never    *)
(* saturates at the top, and saturating_sub stops at 0 as in the code.     *)
(***************************************************************************)

MIN_TICK == -887272
MAX_TICK == 887272

\* Largest liquidity amount of an event, and cap on liquidity_gross / liquidity.
MaxLiquidity == 2

\* The tick indices Mint and Burn events name in this model.
LiqTicks == {-1, 0, 1}
\* The (tick_lower, tick_upper) pairs Mint and Burn events carry in this model:
\* every pair with tick_lower < tick_upper, one with both equal and one reversed.
TickRanges ==
    { rg \in LiqTicks \X LiqTicks : rg[1] < rg[2] } \cup { <<0, 0>>, <<1, -1>> }
\* The clock readings during the events of this model (the pool is created at 0).
V3Times == {1}
\* The ticks and prices a Swap event carries in this model.
SwapTicks == {MIN_TICK - 1, MIN_TICK, 0, MAX_TICK, MAX_TICK + 1}
SwapPrices == {0, 1}

\* struct Tick (the index is the key of the map)
Tick(liquidity_net, liquidity_gross) ==
    [liquidity_net |-> liquidity_net, liquidity_gross |-> liquidity_gross]

SaturatingSub(a, b) == IF a >= b THEN a - b ELSE 0

\* UniswapV3Pool::update_state, at clock reading t
update_state(p, sqrt_price_x96, tick, liquidity, t) ==
    IF sqrt_price_x96 = 0 THEN [pool |-> p, ok |-> FALSE]
    ELSE IF tick < MIN_TICK \/ tick > MAX_TICK THEN [pool |-> p, ok |-> FALSE]
    ELSE [pool |-> [p EXCEPT !.sqrt_price_x96 = sqrt_price_x96, !.tick = tick,
                             !.liquidity = liquidity, !.last_updated = t],
          ok |-> TRUE]

\* The mutant keeps a tick whose liquidity_gross is zero.
update_tick_keeps_zero_gross(ticks, index, liquidity_net, liquidity_gross) ==
    [ticks EXCEPT ![index] = Some(Tick(liquidity_net, liquidity_gross))]

\* UniswapV3Pool::update_tick
update_tick(ticks, index, liquidity_net, liquidity_gross) ==
    IF liquidity_gross = 0
    THEN [ticks EXCEPT ![index] = None]
    ELSE [ticks EXCEPT ![index] = Some(Tick(liquidity_net, liquidity_gross))]

\* Mint, "Update tick_lower" (sign = 1) and "Update tick_upper" (sign = -1)
MintTick(ticks, index, amount, sign) ==
    IF IsSome(ticks[index])
    THEN [ticks EXCEPT ![index] =
            Some(Tick(Unwrap(@).liquidity_net + sign * amount,
                      Unwrap(@).liquidity_gross + amount))]
    ELSE update_tick(ticks, index, sign * amount, amount)

\* Burn, "Update tick_lower" (sign = -1) and "Update tick_upper" (sign = 1) on an
\* initialized tick: the tick is removed once its liquidity_gross is zero.
BurnTick(ticks, index, amount, sign) ==
    LET old == Unwrap(ticks[index])
        gross == SaturatingSub(old.liquidity_gross, amount)
    IN IF gross = 0
       THEN update_tick(ticks, index, old.liquidity_net, 0)
       ELSE [ticks EXCEPT ![index] = Some(Tick(old.liquidity_net + sign * amount, gross))]

ApplyMint_ignores_range(p, tick_lower, tick_upper, amount) ==
    IF tick_lower >= tick_upper THEN [pool |-> p, ok |-> FALSE]
    ELSE LET t1 == MintTick(p.ticks, tick_lower, amount, 1)
             t2 == MintTick(t1, tick_upper, amount, -1)
         IN [pool |-> [p EXCEPT !.ticks = t2, !.liquidity = @ + amount], ok |-> TRUE]

\* apply_log, the Mint arm (lines 420-462)
ApplyMint(p, tick_lower, tick_upper, amount) ==
    IF tick_lower >= tick_upper THEN [pool |-> p, ok |-> FALSE]
    ELSE LET t1 == MintTick(p.ticks, tick_lower, amount, 1)
             t2 == MintTick(t1, tick_upper, amount, -1)
         IN [pool |-> [p EXCEPT !.ticks = t2,
                                !.liquidity = IF p.tick >= tick_lower /\ p.tick < tick_upper
                                              THEN @ + amount ELSE @],
             ok |-> TRUE]

\* apply_log, the Burn arms (lines 463-519 and 520-579, the same code)
ApplyBurn(p, tick_lower, tick_upper, amount) ==
    IF tick_lower >= tick_upper THEN [pool |-> p, ok |-> FALSE]
    ELSE IF ~IsSome(p.ticks[tick_lower]) THEN [pool |-> p, ok |-> FALSE]
    ELSE LET t1 == BurnTick(p.ticks, tick_lower, amount, -1) IN
         IF ~IsSome(t1[tick_upper])
         THEN [pool |-> [p EXCEPT !.ticks = t1], ok |-> FALSE]
         ELSE LET t2 == BurnTick(t1, tick_upper, amount, 1) IN
              [pool |-> [p EXCEPT !.ticks = t2,
                                  !.liquidity = IF p.tick >= tick_lower /\ p.tick < tick_upper
                                                THEN SaturatingSub(@, amount) ELSE @],
               ok |-> TRUE]

\* The logs a V3 pool is handed.  topic is the arm of apply_log's match that the
\* signature hash selects: "Swap" (IUniswapV3Pool, IPancakeV3Pool and
\* IAlgebraPoolSei Swap, three arms with the same code), "Mint", "Burn"
\* (IUniswapV3Pool and IAlgebraPoolSei Burn, two arms with the same code) or
\* "unknown"; decodes = FALSE is a payload that log_decode() rejects.
V3Log(topic, decodes, price, tick, liquidity, lo, hi, amount) ==
    [topic |-> topic, decodes |-> decodes, sqrt_price_x96 |-> price, tick |-> tick,
     liquidity |-> liquidity, tick_lower |-> lo, tick_upper |-> hi, amount |-> amount]
V3Logs ==
    { V3Log("Swap", TRUE, pr, tk, lq, 0, 0, 0) :
        pr \in SwapPrices, tk \in SwapTicks, lq \in {MaxLiquidity} }
    \cup { V3Log(tp, TRUE, 0, 0, 0, rg[1], rg[2], am) :
        tp \in {"Mint", "Burn"}, rg \in TickRanges, am \in 0..MaxLiquidity }
    \cup { V3Log(tp, FALSE, 0, 0, 0, 0, 0, 0) : tp \in {"Swap", "Mint", "Burn"} }
    \cup { V3Log("unknown", TRUE, 0, 0, 0, 0, 0, 0) }

\* EventApplicable::apply_log for UniswapV3Pool, at clock reading t
v3_apply_log(p, log, t) ==
    IF log.topic = "unknown" THEN [pool |-> p, ok |-> TRUE]
    ELSE IF ~log.decodes THEN [pool |-> p, ok |-> FALSE]         \* log.log_decode()?
    ELSE IF log.topic = "Swap"
         THEN update_state(p, log.sqrt_price_x96, log.tick, log.liquidity, t)
    ELSE IF log.topic = "Mint"
         THEN ApplyMint(p, log.tick_lower, log.tick_upper, log.amount)
    ELSE ApplyBurn(p, log.tick_lower, log.tick_upper, log.amount)

\* UniswapV3Pool::apply_swap_internal, at clock reading t
apply_swap_internal(p, token_in, t) ==
    IF token_in \notin {p.token0, p.token1}
    THEN [pool |-> [p EXCEPT !.last_updated = t], ok |-> FALSE]
    ELSE [pool |-> [p EXCEPT !.last_updated = t], ok |-> TRUE]

\* UniswapV3Pool::new
V3Pool(sqrt_price_x96, tick, liquidity, t) ==
    [token0 |-> "T0", token1 |-> "T1", sqrt_price_x96 |-> sqrt_price_x96, tick |-> tick,
     liquidity |-> liquidity, ticks |-> [i \in LiqTicks |-> None],
     last_updated |-> t, created_at |-> t]

NoV3Log == V3Log("", TRUE, 0, 0, 0, 0, 0, 0)
V3LastInit == [op |-> "new", log |-> NoV3Log, token |-> "", ok |-> TRUE]

\* The pool of the specifications that apply no event to it.
IdleV3 ==
    /\ v3 = V3Pool(1, 0, 0, 0)
    /\ v3Last = V3LastInit

\* The model stops at MaxLiquidity.
V3WithinBounds(p) ==
    /\ p.liquidity <= MaxLiquidity
    /\ \A i \in LiqTicks : IsSome(p.ticks[i]) =>
            /\ Unwrap(p.ticks[i]).liquidity_gross <= MaxLiquidity
            /\ Unwrap(p.ticks[i]).liquidity_net <= MaxLiquidity
            /\ Unwrap(p.ticks[i]).liquidity_net >= -MaxLiquidity

\* apply_log
V3ApplyLogCall(log, t) ==
    /\ LET r == v3_apply_log(v3, log, t) IN
        /\ V3WithinBounds(r.pool)
        /\ v3' = r.pool
        /\ v3Last' = [V3LastInit EXCEPT !.op = "apply_log", !.log = log, !.ok = r.ok]
    /\ UNCHANGED notV3

\* apply_swap
V3ApplySwapCall(token_in, t) ==
    /\ LET r == apply_swap_internal(v3, token_in, t) IN
        /\ v3' = r.pool
        /\ v3Last' = [V3LastInit EXCEPT !.op = "apply_swap", !.token = token_in, !.ok = r.ok]
    /\ UNCHANGED notV3

(***************************************************************************)
(*        POOL DISCOVERY (fetch_v3_pool in pool/v3/v3.rs)                  *)
(* One discovery is a function of what the chain answers to its reads: the *)
(* answers are drawn in the initial state and the call is applied to them. *)
(* try_aggregate(false) lets single calls fail: the batch returns one       *)
(* Result per call.  unwrap() on a failed call is the outcome "panic".     *)
(***************************************************************************)

\* The calls of fetch_v3_pool's batch, in the order they are added (0 to 12).
V3Calls ==
    {"token0", "token1", "fee", "tickSpacing", "slot0", "liquidity", "factory",
     "clp_slot0", "algebra_fee", "algebra_globalState", "two_side_globalState",
     "activeIncentive", "fee_in_state_globalState"}

\* The calls every branch unwraps: results 0, 1, 3, 5 and 6.
V3Common == {"token0", "token1", "tickSpacing", "liquidity", "factory"}

\* The answers to one fetch_v3_pool: whether the batch itself came back, the
\* calls that decoded, the price, tick and liquidity the pool reports, the fee
\* each fee-bearing call reports, and is_ramses_factory(factory).
V3Answers(aggregate, ok, price, tick, liquidity, ramses) ==
    [kind |-> "v3", aggregate |-> aggregate, ok |-> ok, sqrtPriceX96 |-> price,
     tick |-> tick, liquidity |-> liquidity, ramses |-> ramses,
     fee |-> 3000, algebra_fee |-> 100, state_fee |-> 500,
     feeZto |-> 400, feeOtz |-> 600]

\* What a discovery returns: Ok(pool) with the branch that built it, Err, or a panic.
FetchOk(variant, pool_type, fee, price, tick, liquidity) ==
    [kind |-> "ok", variant |-> variant, pool_type |-> pool_type, fee |-> fee,
     sqrt_price_x96 |-> price, tick |-> tick, liquidity |-> liquidity]
FetchErr == [kind |-> "err", variant |-> 0, pool_type |-> "", fee |-> 0,
             sqrt_price_x96 |-> 0, tick |-> 0, liquidity |-> 0]
FetchPanic == [FetchErr EXCEPT !.kind = "panic"]
NoFetch == [FetchErr EXCEPT !.kind = "none"]

\* fetch_v3_pool: the if / else-if chain over results 7, 12, 11, 9 and the
\* final else, each branch unwrapping the other results it reads.
fetch_v3_pool(r) ==
    IF ~r.aggregate THEN FetchErr                          \* try_aggregate(false).await?
    ELSE IF "clp_slot0" \in r.ok
    THEN IF (V3Common \cup {"fee"}) \subseteq r.ok
         THEN FetchOk(1, "UniswapV3", r.fee, r.sqrtPriceX96, r.tick, r.liquidity)
         ELSE FetchPanic
    ELSE IF "fee_in_state_globalState" \in r.ok
    THEN IF V3Common \subseteq r.ok
         THEN FetchOk(2, "AlgebraPoolFeeInState", r.state_fee, r.sqrtPriceX96, r.tick,
                      r.liquidity)
         ELSE FetchPanic
    ELSE IF "activeIncentive" \in r.ok
    THEN IF (V3Common \cup {"two_side_globalState"}) \subseteq r.ok
         THEN FetchOk(3, "AlgebraTwoSideFee",
                      IF r.feeZto > r.feeOtz THEN r.feeZto ELSE r.feeOtz,
                      r.sqrtPriceX96, r.tick, r.liquidity)
         ELSE FetchPanic
    ELSE IF "algebra_globalState" \in r.ok
    THEN IF (V3Common \cup {"algebra_fee"}) \subseteq r.ok
         THEN FetchOk(4, "AlgebraV3", r.algebra_fee, r.sqrtPriceX96, r.tick, r.liquidity)
         ELSE FetchPanic
    ELSE IF (V3Common \cup {"slot0", "fee"}) \subseteq r.ok
         THEN FetchOk(5, IF r.ramses THEN "RamsesV2" ELSE "UniswapV3", r.fee,
                      r.sqrtPriceX96, r.tick, r.liquidity)
         ELSE FetchPanic

\* The answers the discovery specification draws from: the batch failing as a
\* whole, and every combination of calls that decode and calls that do not.
V3AnswerSet ==
    {V3Answers(FALSE, {}, 1, 0, 0, FALSE)}
    \cup { V3Answers(TRUE, ok, 1, 0, 0, ramses) : ok \in SUBSET V3Calls, ramses \in BOOLEAN }

(***************************************************************************)
(*        THE LOCKS OF PoolRegistry (pool/registry.rs)                     *)
(***************************************************************************)

\* The tasks: one applies events to pool X, one quotes on pool Y, one adds pool
\* Z, one removes X or Z, one logs the summary, one lists the pools of a type.
Tasks == {"applier", "quoter", "adder", "remover", "summary", "getter"}
LockPools == {"X", "Y", "Z"}
Locks == {"by_address", "by_type"} \cup LockPools

\* tokio::sync::RwLock: any number of readers or one writer. Its queue is left
\* out: a reader here never waits for a writer that is itself still waiting,
\* so a task blocked here is blocked in the program too.
Unlocked == [writer |-> None, readers |-> {}]
CanRead(l) == rwlocks[l].writer = None
CanWrite(l) == rwlocks[l] = Unlocked
Holders(l) == rwlocks[l].readers \cup { t \in Tasks : rwlocks[l].writer = Some(t) }

\* What a task is waiting to acquire at its await point: <<lock, mode>>.
Wants(t) ==
    CASE t = "applier" /\ taskPc[t] = "get_pool" -> {<<"by_address", "read">>}
      [] t = "applier" /\ taskPc[t] = "lock_pool" -> {<<"X", "write">>}
      [] t = "quoter" /\ taskPc[t] = "get_pool" -> {<<"by_address", "read">>}
      [] t = "quoter" /\ taskPc[t] = "quote" -> {<<"Y", "read">>}
      [] t = "adder" /\ taskPc[t] = "idle" -> {<<"by_address", "write">>}
      [] t = "adder" /\ taskPc[t] = "lock_type" -> {<<"by_type", "write">>}
      [] t = "remover" /\ taskPc[t] = "idle" -> {<<"by_address", "write">>}
      [] t = "remover" /\ taskPc[t] = "read_pool" -> { <<a, "read">> : a \in taskArg[t] }
      [] t = "remover" /\ taskPc[t] = "lock_type" -> {<<"by_type", "write">>}
      [] t = "summary" /\ taskPc[t] = "idle" -> {<<"by_address", "read">>}
      [] t = "summary" /\ taskPc[t] = "iterating" -> { <<a, "read">> : a \in taskArg[t] }
      [] t = "getter" /\ taskPc[t] = "idle" -> {<<"by_type", "read">>}
      [] t = "getter" /\ taskPc[t] = "lock_address" -> {<<"by_address", "read">>}
      [] OTHER -> {}

\* The tasks whose locks keep t from going on.
BlockedBy(t) ==
    UNION { IF w[2] = "read" THEN { u \in Tasks : rwlocks[w[1]].writer = Some(u) }
            ELSE Holders(w[1]) \ {t} : w \in Wants(t) }

\* The tasks t waits for, directly or through the tasks that block it.
RECURSIVE WaitsFor(_, _)
WaitsFor(ts, n) ==
    IF n = 0 THEN ts
    ELSE WaitsFor(ts \cup UNION { BlockedBy(u) : u \in ts }, n - 1)

InitLocks ==
    /\ taskPc = [t \in Tasks |-> IF t \in {"applier", "quoter"} THEN "get_pool" ELSE "idle"]
    /\ taskArg = [t \in Tasks |-> {}]
    /\ rwlocks = [l \in Locks |-> Unlocked]
    /\ poolMap = {"X", "Y"}

\* get_pool(X) by the task that applies events: the read guard is dropped when
\* the function returns.
ApplierGetPool ==
    /\ taskPc["applier"] = "get_pool"
    /\ CanRead("by_address")
    /\ "X" \in poolMap
    /\ taskPc' = [taskPc EXCEPT !["applier"] = "lock_pool"]
    /\ UNCHANGED <<taskArg, rwlocks, poolMap, notLocks>>

\* pool.write().await on the pool get_pool returned
ApplierLockPool ==
    /\ taskPc["applier"] = "lock_pool"
    /\ CanWrite("X")
    /\ rwlocks' = [rwlocks EXCEPT !["X"].writer = Some("applier")]
    /\ taskPc' = [taskPc EXCEPT !["applier"] = "applying"]
    /\ UNCHANGED <<taskArg, poolMap, notLocks>>

\* the event is applied and the write guard dropped
ApplierUnlockPool ==
    /\ taskPc["applier"] = "applying"
    /\ rwlocks' = [rwlocks EXCEPT !["X"].writer = None]
    /\ taskPc' = [taskPc EXCEPT !["applier"] = "get_pool"]
    /\ UNCHANGED <<taskArg, poolMap, notLocks>>

\* get_pool(Y) by the task that quotes
QuoterGetPool ==
    /\ taskPc["quoter"] = "get_pool"
    /\ CanRead("by_address")
    /\ taskPc' = [taskPc EXCEPT !["quoter"] = "quote"]
    /\ UNCHANGED <<taskArg, rwlocks, poolMap, notLocks>>

\* pool.read().await and the quote on Y
QuoterQuote ==
    /\ taskPc["quoter"] = "quote"
    /\ CanRead("Y")
    /\ taskPc' = [taskPc EXCEPT !["quoter"] = "get_pool"]
    /\ UNCHANGED <<taskArg, rwlocks, poolMap, notLocks>>

\* add_pool, up to its second await: by_address.write(), insert.
AdderLockAddress ==
    /\ taskPc["adder"] = "idle"
    /\ CanWrite("by_address")
    /\ rwlocks' = [rwlocks EXCEPT !["by_address"].writer = Some("adder")]
    /\ poolMap' = poolMap \cup {"Z"}
    /\ taskPc' = [taskPc EXCEPT !["adder"] = "lock_type"]
    /\ UNCHANGED <<taskArg, notLocks>>

\* add_pool, from by_type.write() to its return, where both guards drop.
AdderLockType ==
    /\ taskPc["adder"] = "lock_type"
    /\ CanWrite("by_type")
    /\ rwlocks' = [rwlocks EXCEPT !["by_address"].writer = None]
    /\ taskPc' = [taskPc EXCEPT !["adder"] = "idle"]
    /\ UNCHANGED <<taskArg, poolMap, notLocks>>

\* remove_pool(a), up to its second await: by_address.write(), remove; an
\* absent address returns None at the "?".
RemoverLockAddress(a) ==
    /\ taskPc["remover"] = "idle"
    /\ CanWrite("by_address")
    /\ IF a \in poolMap
       THEN /\ rwlocks' = [rwlocks EXCEPT !["by_address"].writer = Some("remover")]
            /\ poolMap' = poolMap \ {a}
            /\ taskPc' = [taskPc EXCEPT !["remover"] = "read_pool"]
            /\ taskArg' = [taskArg EXCEPT !["remover"] = {a}]
       ELSE UNCHANGED <<rwlocks, poolMap, taskPc, taskArg>>
    /\ UNCHANGED notLocks

\* remove_pool, pool.read().await.pool_type(): the read guard of the removed
\* pool is a temporary, the write guard of by_address is still held.
RemoverReadPool ==
    /\ taskPc["remover"] = "read_pool"
    /\ \A a \in taskArg["remover"] : CanRead(a)
    /\ taskPc' = [taskPc EXCEPT !["remover"] = "lock_type"]
    /\ taskArg' = [taskArg EXCEPT !["remover"] = {}]
    /\ UNCHANGED <<rwlocks, poolMap, notLocks>>

\* remove_pool, from by_type.write() to its return, where both guards drop.
RemoverLockType ==
    /\ taskPc["remover"] = "lock_type"
    /\ CanWrite("by_type")
    /\ rwlocks' = [rwlocks EXCEPT !["by_address"].writer = None]
    /\ taskPc' = [taskPc EXCEPT !["remover"] = "idle"]
    /\ UNCHANGED <<taskArg, poolMap, notLocks>>

\* log_summary, by_address.read().await: the guard lives to the end of the
\* function.
SummaryLockAddress ==
    /\ taskPc["summary"] = "idle"
    /\ CanRead("by_address")
    /\ rwlocks' = [rwlocks EXCEPT !["by_address"].readers = @ \cup {"summary"}]
    /\ taskPc' = [taskPc EXCEPT !["summary"] = "iterating"]
    /\ taskArg' = [taskArg EXCEPT !["summary"] = poolMap]
    /\ UNCHANGED <<poolMap, notLocks>>

\* log_summary, pool.read().await.log_summary() of one pool of the map
SummaryReadPool(a) ==
    /\ taskPc["summary"] = "iterating"
    /\ a \in taskArg["summary"]
    /\ CanRead(a)
    /\ taskArg' = [taskArg EXCEPT !["summary"] = @ \ {a}]
    /\ UNCHANGED <<taskPc, rwlocks, poolMap, notLocks>>

\* log_summary returns
SummaryReturn ==
    /\ taskPc["summary"] = "iterating"
    /\ taskArg["summary"] = {}
    /\ rwlocks' = [rwlocks EXCEPT !["by_address"].readers = @ \ {"summary"}]
    /\ taskPc' = [taskPc EXCEPT !["summary"] = "idle"]
    /\ UNCHANGED <<taskArg, poolMap, notLocks>>

\* get_pools_by_type, get_v2_pools and get_v3_pools, by_type.read().await
GetterLockType ==
    /\ taskPc["getter"] = "idle"
    /\ CanRead("by_type")
    /\ rwlocks' = [rwlocks EXCEPT !["by_type"].readers = @ \cup {"getter"}]
    /\ taskPc' = [taskPc EXCEPT !["getter"] = "lock_address"]
    /\ UNCHANGED <<taskArg, poolMap, notLocks>>

\* the same, from by_address.read().await to the return, where both guards drop
GetterLockAddress ==
    /\ taskPc["getter"] = "lock_address"
    /\ CanRead("by_address")
    /\ rwlocks' = [rwlocks EXCEPT !["by_type"].readers = @ \ {"getter"}]
    /\ taskPc' = [taskPc EXCEPT !["getter"] = "idle"]
    /\ UNCHANGED <<taskArg, poolMap, notLocks>>

\* The lock variables of a specification that is not about the locks.
IdleLocks ==
    /\ taskPc = [t \in Tasks |-> "idle"]
    /\ taskArg = [t \in Tasks |-> {}]
    /\ rwlocks = [l \in Locks |-> Unlocked]
    /\ poolMap = {}

(***************************************************************************)
(*        POOL DISCOVERY (fetch_v2_pool in pool/v2/v2.rs)                  *)
(***************************************************************************)

GET_FEE_MULTIPLIER == 100
GET_FEE_MAX == 10000
REVERSE_FEE_MAX == 5000

\* Results 0, 1, 2, 5 and 3 of fetch_v2_pool's batch, and the pair-level fee
\* accessors, results 4, 7 and 9.
V2Calls == {"token0", "token1", "getReserves", "getReserves256", "factory"}
V2FeeAccessors == {"fee", "getFee", "swapFee"}
\* The calls of get_v2_fee_from_factory's batch, results 0, 1 and 2.
FactoryFeeCalls == {"getFee(pool,stable)", "getFee(stable)", "getFee(pool)"}

\* The answers to get_v2_fee_from_factory's batch.
FactoryFeeAnswers(aggregate, ok) == [aggregate |-> aggregate, ok |-> ok, fee |-> 25]

\* The answers to one fetch_v2_pool: whether the batch came back, the calls that
\* decoded, what fee() reports, which of stable() / isStable() decoded (to true),
\* whether the storage read of the factory slot succeeded, whether the factory
\* is in factory_to_fee, whether get_v2_factory_fee knows it, the answers to
\* get_v2_fee_from_factory on the pool's factory, the outcome of the Aero
\* getPair probe, and whether get_chain_id and default_factory_fee_by_chain_id
\* both returned Ok.
V2Answers(aggregate, ok, accessors, pair_fee, stable, storage, in_map, legacy, factory_fee, aero, default) ==
    [kind |-> "v2", aggregate |-> aggregate, ok |-> ok, accessors |-> accessors,
     pair_fee |-> pair_fee, stable |-> stable, storage |-> storage, in_map |-> in_map,
     legacy |-> legacy, factory_fee |-> factory_fee, aero |-> aero, default |-> default,
     reserve0 |-> 1, reserve1 |-> 1, getFee |-> 20, swapFee |-> 10, map_fee |-> 3000,
     legacy_fee |-> 2000, aero_fee |-> 500, default_fee |-> 1000]

\* Ok(pool) of fetch_v2_pool, with the step of the fee resolution that set the fee.
V2FetchOk(pool_type, reserve0, reserve1, fee, fee_step) ==
    [kind |-> "ok", pool_type |-> pool_type, reserve0 |-> reserve0, reserve1 |-> reserve1,
     fee |-> fee, fee_step |-> fee_step]

\* get_v2_fee_from_factory: None when the batch fails, else the first getFee
\* shape that decoded, times GET_FEE_MULTIPLIER.
get_v2_fee_from_factory(f) ==
    IF ~f.aggregate THEN None                               \* .await.ok()?
    ELSE IF f.ok # {} THEN Some(f.fee * GET_FEE_MULTIPLIER)
    ELSE None

\* fetch_v2_pool, the fee resolution after the pair-level accessors (lines
\* 540-621): [ok, fee, fee_step], ok = FALSE where a "?" returns the error.
ResolveFactoryFee(a) ==
    IF "factory" \notin a.ok /\ ~a.storage
    THEN [ok |-> FALSE, fee |-> 0, fee_step |-> "storage"]    \* get_storage_at(..).await?
    ELSE IF a.in_map THEN [ok |-> TRUE, fee |-> a.map_fee, fee_step |-> "factory_to_fee"]
    ELSE IF a.legacy THEN [ok |-> TRUE, fee |-> a.legacy_fee, fee_step |-> "get_v2_factory_fee"]
    ELSE IF IsSome(get_v2_fee_from_factory(a.factory_fee))
    THEN [ok |-> TRUE, fee |-> Unwrap(get_v2_fee_from_factory(a.factory_fee)),
          fee_step |-> "get_v2_fee_from_factory"]
    ELSE IF a.aero = "rpc_err"
    THEN [ok |-> FALSE, fee |-> 0, fee_step |-> "aero"]       \* try_aggregate(false).await?
    ELSE IF a.aero = "found"
    THEN [ok |-> TRUE, fee |-> a.aero_fee, fee_step |-> "aero"]
    ELSE IF a.default
    THEN [ok |-> TRUE, fee |-> a.default_fee, fee_step |-> "default"]
    ELSE [ok |-> FALSE, fee |-> 0, fee_step |-> "default"]

\* fetch_v2_pool, the fee: the pair-level accessors in the order fee(), getFee(),
\* swapFee(), then the factory.
ResolveFee(a) ==
    IF "fee" \in a.accessors
    THEN [ok |-> TRUE,
          fee |-> (IF a.pair_fee > REVERSE_FEE_MAX THEN GET_FEE_MAX - a.pair_fee
                   ELSE a.pair_fee) * GET_FEE_MULTIPLIER,
          fee_step |-> "fee"]
    ELSE IF "getFee" \in a.accessors
    THEN [ok |-> TRUE, fee |-> a.getFee * GET_FEE_MULTIPLIER, fee_step |-> "getFee"]
    ELSE IF "swapFee" \in a.accessors
    THEN [ok |-> TRUE, fee |-> a.swapFee * GET_FEE_MULTIPLIER, fee_step |-> "swapFee"]
    ELSE ResolveFactoryFee(a)

\* fetch_v2_pool
fetch_v2_pool(a) ==
    IF ~a.aggregate THEN FetchErr                          \* try_aggregate(false).await?
    ELSE IF ~({"token0", "token1"} \subseteq a.ok) THEN FetchPanic
    ELSE IF {"getReserves", "getReserves256"} \cap a.ok = {} THEN FetchErr
    ELSE LET is_stable == a.stable # {}
             f == ResolveFee(a)
         IN IF ~f.ok THEN FetchErr
            ELSE V2FetchOk(IF is_stable THEN "Stable" ELSE "UniswapV2",
                           a.reserve0, a.reserve1, f.fee, f.fee_step)

\* The answers the discovery specification draws from: the batch failing as a
\* whole; a pair-level fee accessor decoding, whatever the factory would say;
\* and no accessor decoding, with every outcome of the steps behind them.
V2AnswerSet ==
    LET noFactoryFee == FactoryFeeAnswers(TRUE, {})
        stables == {{}, {"stable"}, {"isStable"}}
    IN {V2Answers(FALSE, {}, {}, 30, {}, TRUE, FALSE, FALSE, noFactoryFee, "no_match", TRUE)}
       \cup { V2Answers(TRUE, ok, acc, pf, st, TRUE, FALSE, FALSE, noFactoryFee,
                        "no_match", TRUE) :
                ok \in SUBSET V2Calls, acc \in (SUBSET V2FeeAccessors) \ {{}},
                pf \in {30, GET_FEE_MAX - 30}, st \in stables }
       \cup { V2Answers(TRUE, ok, {}, 30, st, sto, im, lg, ff, ae, df) :
                ok \in SUBSET V2Calls, st \in stables, sto \in BOOLEAN, im \in BOOLEAN,
                lg \in BOOLEAN,
                ff \in { FactoryFeeAnswers(FALSE, {}), noFactoryFee,
                         FactoryFeeAnswers(TRUE, {"getFee(pool,stable)"}),
                         FactoryFeeAnswers(TRUE, {"getFee(pool)"}) },
                ae \in {"rpc_err", "no_match", "match_no_fee", "found"},
                df \in BOOLEAN }
       \* a pair whose getFee() reports its fee in another unit than the 1/10000
       \* the scaling by GET_FEE_MULTIPLIER expects, and a factory configured
       \* with a fee of the whole denominator
       \cup { [V2Answers(TRUE, V2Calls, {"getFee"}, 30, {}, TRUE, FALSE, FALSE, noFactoryFee,
                         "no_match", TRUE) EXCEPT !.getFee = gf] : gf \in {GET_FEE_MAX, 30000} }
       \cup { [V2Answers(TRUE, V2Calls, {}, 30, {}, TRUE, TRUE, FALSE, noFactoryFee,
                         "no_match", TRUE) EXCEPT !.map_fee = FEE_DENOMINATOR] }

(***************************************************************************)
(*        TICK DISCOVERY (fetch_v3_ticks in pool/v3/v3.rs), the flat       *)
(*        word bitmap of UniswapV3, RamsesV2 and PancakeV3 pools           *)
(***************************************************************************)

\* i32 "/" rounds toward zero
TruncDiv(a, b) == IF a >= 0 THEN a \div b ELSE -((-a) \div b)

\* UniswapV3Pool::tick_to_word; ">> 8" on an i32 is the floor of a division by 256
tick_to_word(tick_spacing, tick) ==
    LET compressed == TruncDiv(tick, tick_spacing) IN
    (IF tick < 0 /\ tick % tick_spacing # 0 THEN compressed - 1 ELSE compressed) \div 256

TickIndex_forgets_word(word_pos, i, tick_spacing) == i * tick_spacing

\* (word_pos * 256 + i as i32) * pool.tick_spacing
TickIndex(word_pos, i, tick_spacing) == (word_pos * 256 + i) * tick_spacing

\* The two loops of the scan, "for (j, word_pos) in word_pos_indices" around
\* "for i in 0..256", as one pass over the (word, bit) pairs in their order: a
\* pair is kept when bitmap & (1 << i) != 0, and a word whose bitmap is zero,
\* which the code skips, keeps none.  set_bits holds the <<word, bit>> pairs
\* the chain reports as set.
ScanWords(set_bits, tick_spacing, min_word, max_word) ==
    LET IsSet(x) == x \in set_bits
        positions == [n \in 1..((max_word - min_word + 1) * 256) |->
                        <<min_word + (n - 1) \div 256, (n - 1) % 256>>]
        initialized == SelectSeq(positions, IsSet)
    IN [n \in 1..Len(initialized) |->
            TickIndex(initialized[n][1], initialized[n][2], tick_spacing)]

\* The answers to one fetch_v3_ticks: whether the tickBitmap batches and the
\* ticks batches came back, the pool's tick spacing and the bits set.
TickAnswers(aggregate, ticks_aggregate, tick_spacing, set_bits) ==
    [kind |-> "ticks", aggregate |-> aggregate, ticks_aggregate |-> ticks_aggregate,
     tick_spacing |-> tick_spacing, set_bits |-> set_bits]

\* Ok(()) of fetch_v3_ticks, with the tick_indices the scan collected, which are
\* the keys of pool.ticks.
TicksOk(tick_indices) == [kind |-> "ok", tick_indices |-> tick_indices]

\* fetch_v3_ticks
fetch_v3_ticks(r) ==
    IF ~r.aggregate THEN FetchErr                          \* aggregate().await?
    ELSE LET tick_indices == ScanWords(r.set_bits, r.tick_spacing,
                                       tick_to_word(r.tick_spacing, MIN_TICK),
                                       tick_to_word(r.tick_spacing, MAX_TICK))
         IN IF tick_indices # <<>> /\ ~r.ticks_aggregate THEN FetchErr
            ELSE TicksOk(tick_indices)

\* The bits a bitmap of this model may have set: the three of the worked
\* example, the last bit of the word below zero, and the first bit of the
\* lowest and of the highest word fetched.
CandidateBits(tick_spacing) ==
    {<<0, 5>>, <<0, 130>>, <<0, 255>>, <<-1, 255>>,
     <<tick_to_word(tick_spacing, MIN_TICK), 0>>,
     <<tick_to_word(tick_spacing, MAX_TICK), 0>>}

TickAnswerSet ==
    UNION { { TickAnswers(TRUE, TRUE, ts, bits) : bits \in SUBSET CandidateBits(ts) } :
            ts \in {60, 200} }
    \cup { TickAnswers(FALSE, TRUE, 60, {}), TickAnswers(TRUE, FALSE, 60, {<<0, 5>>}) }

\* The answers the pool of the event specification is discovered from: every
\* call decodes, and slot0 reports any price and tick, an uninitialized pool's
\* zero price included.
V3InitAnswers ==
    { V3Answers(TRUE, V3Calls, pr, tk, 0, FALSE) : pr \in SwapPrices, tk \in {0, MAX_TICK + 1} }

\* The pool fetch_v3_pool builds (UniswapV3Pool::new) from what it decoded.
InitV3 ==
    \E r \in V3InitAnswers :
        LET f == fetch_v3_pool(r) IN
        /\ f.kind = "ok"
        /\ v3 = V3Pool(f.sqrt_price_x96, f.tick, f.liquidity, 0)
        /\ v3Last = V3LastInit

\* No discovery runs in the other specifications.
IdleFetch ==
    /\ fetchIn = V3Answers(FALSE, {}, 1, 0, 0, FALSE)
    /\ fetchOut = NoFetch

InitFetch ==
    /\ fetchIn \in V3AnswerSet \cup V2AnswerSet \cup TickAnswerSet
    /\ fetchOut = NoFetch

\* fetch_v3_pool, applied to the answers of this discovery
FetchV3PoolCall ==
    /\ fetchIn.kind = "v3"
    /\ fetchOut = NoFetch
    /\ fetchOut' = fetch_v3_pool(fetchIn)
    /\ UNCHANGED <<fetchIn, notFetch>>

\* fetch_v3_ticks, applied to the answers of this discovery
FetchV3TicksCall ==
    /\ fetchIn.kind = "ticks"
    /\ fetchOut = NoFetch
    /\ fetchOut' = fetch_v3_ticks(fetchIn)
    /\ UNCHANGED <<fetchIn, notFetch>>

\* fetch_v2_pool, applied to the answers of this discovery
FetchV2PoolCall ==
    /\ fetchIn.kind = "v2"
    /\ fetchOut = NoFetch
    /\ fetchOut' = fetch_v2_pool(fetchIn)
    /\ UNCHANGED <<fetchIn, notFetch>>

(***************************************************************************)
(*                           SPECIFICATIONS                                *)
(***************************************************************************)

\* The state of a component a specification does not run.
IdlePaths ==
    /\ path_registry = [c \in ChainIds |-> None]
    /\ pathCalls = 0
    /\ pathPrev = [c \in ChainIds |-> None]
    /\ pathLast = PathLastInit
IdleV2 ==
    /\ v2 = V2Pool(1, 1, 0, 0)
    /\ v2Last = V2LastInit(V2Pool(1, 1, 0, 0))

NextPaths ==
    \/ \E c \in ChainIds : new_path_registry(c)
    \/ \E c \in ChainIds : remove_path_registry(c)
    \/ \E b \in Batches : set_paths(b)
    \/ \E c \in ChainIds, p \in Pools : get_paths_for_pool(c, p)

InitPathsSpec == InitPaths /\ InitRegistry /\ IdleV2 /\ IdleV3 /\ IdleFetch /\ IdleLocks /\ IdleCurve /\ IdleWide

SpecPaths == InitPathsSpec /\ [][NextPaths]_vars

NextRegistry ==
    \/ \E pool \in RegistryPools : add_pool(pool)
    \/ \E a \in Addresses : remove_pool(a)
    \/ \E a \in Addresses : ExistsPoolCall(a)
    \/ \E t \in PoolTypes : GetPoolsByTypeCall(t)

InitRegistrySpec == IdlePaths /\ InitRegistry /\ IdleV2 /\ IdleV3 /\ IdleFetch /\ IdleLocks /\ IdleCurve /\ IdleWide

SpecRegistry == InitRegistrySpec /\ [][NextRegistry]_vars

NextV2 ==
    \/ \E tk \in V2Tokens, a \in QuoteAmounts : CalculateOutputCall(tk, a)
    \/ \E tk \in V2Tokens, a \in 0..MaxAmount : CalculateInputCall(tk, a)
    \/ \E tk \in V2Tokens, a \in 0..MaxAmount, b \in 0..MaxAmount, t \in Times :
            ApplySwapCall(tk, a, b, t)
    \/ \E log \in V2Logs, t \in Times : V2ApplyLogCall(log, t)

InitV2Spec == IdlePaths /\ InitRegistry /\ InitV2 /\ IdleV3 /\ IdleFetch /\ IdleLocks /\ IdleCurve /\ IdleWide

SpecV2 == InitV2Spec /\ [][NextV2]_vars

NextV3 ==
    \/ \E log \in V3Logs, t \in V3Times : V3ApplyLogCall(log, t)
    \/ \E tk \in V2Tokens, t \in V3Times : V3ApplySwapCall(tk, t)

InitV3Spec == IdlePaths /\ InitRegistry /\ IdleV2 /\ InitV3 /\ IdleFetch /\ IdleLocks /\ IdleCurve /\ IdleWide

SpecV3 == InitV3Spec /\ [][NextV3]_vars

NextFetch ==
    \/ FetchV3PoolCall
    \/ FetchV2PoolCall
    \/ FetchV3TicksCall

InitFetchSpec == IdlePaths /\ InitRegistry /\ IdleV2 /\ IdleV3 /\ InitFetch /\ IdleLocks /\ IdleCurve /\ IdleWide

SpecFetch == InitFetchSpec /\ [][NextFetch]_vars

\* The logs of the specification that hands events to a V2 and a V3 pool side
\* by side: of every topic and shape, a few payloads.
EventLogsV2 == { log \in V2Logs : log.reserve0 = log.reserve1 }
EventLogsV3 ==
    { log \in V3Logs :
        \/ log.topic = "unknown"
        \/ ~log.decodes
        \/ log.topic = "Swap" /\ log.tick = 0
        \/ log.topic \in {"Mint", "Burn"} /\ log.tick_lower = -1 /\ log.tick_upper = 1
                /\ log.amount = 1 }

NextEvents ==
    \/ \E log \in EventLogsV2, t \in V3Times : V2ApplyLogCall(log, t)
    \/ \E log \in EventLogsV3, t \in V3Times : V3ApplyLogCall(log, t)

InitEventsSpec == IdlePaths /\ InitRegistry /\ IdleV2 /\ IdleV3 /\ IdleFetch /\ IdleLocks /\ IdleCurve /\ IdleWide

SpecEvents == InitEventsSpec /\ [][NextEvents]_vars

NextCurve ==
    \/ GetYCall

InitCurveSpec == IdlePaths /\ InitRegistry /\ IdleV2 /\ IdleV3 /\ IdleFetch /\ IdleLocks /\ InitCurve /\ IdleWide

SpecCurve == InitCurveSpec /\ [][NextCurve]_vars

NextWide ==
    \/ QuoteInputThenOutput

InitWideSpec == IdlePaths /\ InitRegistry /\ IdleV2 /\ IdleV3 /\ IdleFetch /\ IdleLocks /\ IdleCurve /\ InitWide

SpecWide == InitWideSpec /\ [][NextWide]_vars

NextLocks ==
    \/ ApplierGetPool
    \/ ApplierLockPool
    \/ ApplierUnlockPool
    \/ QuoterGetPool
    \/ QuoterQuote
    \/ AdderLockAddress
    \/ AdderLockType
    \/ \E a \in {"X", "Z"} : RemoverLockAddress(a)
    \/ RemoverReadPool
    \/ RemoverLockType
    \/ SummaryLockAddress
    \/ \E a \in LockPools : SummaryReadPool(a)
    \/ SummaryReturn
    \/ GetterLockType
    \/ GetterLockAddress

InitLocksSpec == IdlePaths /\ InitRegistry /\ IdleV2 /\ IdleV3 /\ IdleFetch /\ InitLocks /\ IdleCurve /\ IdleWide

SpecLocks == InitLocksSpec /\ [][NextLocks]_vars

(***************************************************************************)
(*                      CLAIMS: PATH REGISTRY                              *)
(***************************************************************************)

LastSetPaths == pathLast.op = "set_paths"
ValidationErrors == {"err_anchor", "err_path"}
ReturnedErrors == {"err_anchor", "err_path", "err_empty"}

\* The cache entry of (chain_id, pool) in registry reg, None without a registry.
CacheEntry(reg, chain_id, pool) ==
    IF IsSome(reg[chain_id]) THEN Unwrap(reg[chain_id])[pool] ELSE None

\* A path obeys the connectivity invariant of the data model: it has a first
\* hop, that hop starts at the anchor token, and every adjacent pair is connected.
PathWellFormed(path, anchor_token) ==
    /\ Len(path) >= 1
    /\ path[1].token_in = anchor_token
    /\ \A i \in 1..(Len(path) - 1) : path[i].token_out = path[i + 1].token_in

EntryWellFormed(e) ==
    \A j \in 1..Len(e.paths) : PathWellFormed(e.paths[j], e.anchor_token)

\* C1: set_paths is all-or-nothing on a validation failure: whenever a call
\* returns an error because a path violates the anchor or the connectivity rule,
\* every chain's cache is what it was before the call.
C1_SetPathsAllOrNothing ==
    (LastSetPaths /\ pathLast.res \in ValidationErrors) => path_registry = pathPrev

\* C2: every path held in a cache entry (in its source entry and in its target
\* entries) has all its adjacent hops connected, the last pair included, and
\* starts at the anchor token of the entry that holds it.
C2_StoredPathsConnected ==
    \A c \in ChainIds, p \in Pools :
        IsSome(CacheEntry(path_registry, c, p)) =>
            LET e == Unwrap(CacheEntry(path_registry, c, p)) IN
            /\ EntryWellFormed(e[1])
            /\ \A k \in 1..Len(e[2]) : EntryWellFormed(e[2][k])

\* C5: get_paths_for_pool(chain_id, pool) returns a value: None when nothing is
\* stored for (chain_id, pool), a chain without PathRegistry included, and
\* otherwise the tuple stored for that pool on that chain.
C5_GetReturnsStoredOrNone ==
    pathLast.op = "get_paths_for_pool" =>
        /\ pathLast.res = "ok"
        /\ pathLast.got = CacheEntry(path_registry, pathLast.chain_id, pathLast.pool)

\* C6: after a successful set_paths(batch), the cache entry of each first-hop
\* pool on chain c has as target list exactly the batch entries on another chain
\* that share the source entry's anchor token.
C6_TargetsOtherChainSameAnchor ==
    (LastSetPaths /\ pathLast.res = "ok") =>
        \A k \in 1..Len(pathLast.batch) :
            LET c == pathLast.batch[k].chain_id IN
            \A p \in FirstPools(pathLast.batch[k].paths) :
                /\ IsSome(CacheEntry(path_registry, c, p))
                /\ LET e == Unwrap(CacheEntry(path_registry, c, p)) IN
                   e[2] = SelectSeq(pathLast.batch,
                            LAMBDA t : t.chain_id # c /\ t.anchor_token = e[1].anchor_token)

\* The last entry of the batch on chain c that has a path starting at pool p.
LastEntryFor(batch, c, p) ==
    LET ks == { k \in 1..Len(batch) :
                    /\ batch[k].chain_id = c
                    /\ \E j \in 1..Len(batch[k].paths) :
                          Len(batch[k].paths[j]) > 0 /\ batch[k].paths[j][1].pool = p }
    IN batch[CHOOSE k \in ks : \A k2 \in ks : k2 <= k]

\* C7: a successful set_paths call replaces the cache entry of every pool P its
\* batch has paths starting at: afterwards the entry holds only that call's
\* paths starting at P and that call's entries of the other chains, nothing of
\* an earlier call.
C7_SetPathsReplacesEntry ==
    (LastSetPaths /\ pathLast.res = "ok") =>
        \A k \in 1..Len(pathLast.batch) :
            LET c == pathLast.batch[k].chain_id IN
            \A p \in FirstPools(pathLast.batch[k].paths) :
                LET src == LastEntryFor(pathLast.batch, c, p) IN
                CacheEntry(path_registry, c, p) =
                    Some(<< [paths |-> SelectSeq(src.paths, LAMBDA sp : sp[1].pool = p),
                             chain_id |-> c, anchor_token |-> src.anchor_token],
                            SelectSeq(pathLast.batch, LAMBDA t : t.chain_id # c) >>)

\* C7 witness: a successful call has replaced an entry that an earlier call
\* stored with other paths.
C7_Witness ==
    /\ LastSetPaths /\ pathLast.res = "ok"
    /\ \E k \in 1..Len(pathLast.batch) :
        LET c == pathLast.batch[k].chain_id IN
        \E p \in FirstPools(pathLast.batch[k].paths) :
            /\ IsSome(CacheEntry(pathPrev, c, p))
            /\ IsSome(CacheEntry(path_registry, c, p))
            /\ Unwrap(CacheEntry(pathPrev, c, p))[1].paths
                    # Unwrap(CacheEntry(path_registry, c, p))[1].paths

\* The batch has a chain entry with a path whose first hop does not start at
\* the entry's anchor token.
HasAnchorViolation(batch) ==
    \E k \in 1..Len(batch) : \E j \in 1..Len(batch[k].paths) :
        /\ Len(batch[k].paths[j]) > 0
        /\ batch[k].paths[j][1].token_in # batch[k].anchor_token

\* C8: set_paths returns an error for every batch that has a chain entry with a
\* path whose first hop's token_in differs from the entry's anchor token.
C8_AnchorViolationReturnsError ==
    (LastSetPaths /\ HasAnchorViolation(pathLast.batch)) => pathLast.res \in ReturnedErrors

(***************************************************************************)
(*                      CLAIMS: POOL REGISTRY                              *)
(***************************************************************************)

\* Address a was added and then removed, and not added again since.
AddedThenRemoved(a) == regHist[a].state = "removed"

\* C3: after add_pool(p) followed by remove_pool(p.address), with operations on
\* other addresses before and in between, exists_pool(p.address) is false and
\* get_pools_by_type of p's variant returns no pool with that address; the
\* answers the two getters have returned say the same.
C3_RemovedPoolIsGone ==
    \A a \in Addresses :
        AddedThenRemoved(a) =>
            /\ ~exists_pool(by_address, a)
            /\ LET pools == get_pools_by_type(by_type, by_address, regHist[a].pool_type)
               IN \A i \in 1..Len(pools) : pools[i].address # a
            /\ (regLast.op = "exists_pool" /\ regLast.address = a) => ~regLast.found
            /\ (regLast.op = "get_pools_by_type" /\ regLast.pool_type = regHist[a].pool_type)
                    => \A i \in 1..Len(regLast.pools) : regLast.pools[i].address # a

\* C3 witness: a pool was added and removed, another pool of the same variant
\* is still registered, and get_pools_by_type of that variant has answered.
C3_Witness ==
    \E a \in Addresses :
        /\ AddedThenRemoved(a)
        /\ regLast.op = "get_pools_by_type"
        /\ regLast.pool_type = regHist[a].pool_type
        /\ Len(regLast.pools) > 0

(***************************************************************************)
(*                      CLAIMS: V2 AND V3 POOLS                            *)
(***************************************************************************)

\* C4: whenever apply_log on a V2 or V3 pool returns an error, the event is not
\* applied: reserves, sqrtPriceX96, tick, liquidity and every entry of the tick
\* map are what they were before the call.
C4_FailedApplyLogLeavesPool ==
    [][ /\ (v3Last'.op = "apply_log" /\ ~v3Last'.ok) =>
            /\ v3'.sqrt_price_x96 = v3.sqrt_price_x96
            /\ v3'.tick = v3.tick
            /\ v3'.liquidity = v3.liquidity
            /\ v3'.ticks = v3.ticks
        /\ (v2Last'.op = "apply_log" /\ ~v2Last'.ok) =>
            /\ v2'.reserve0 = v2.reserve0
            /\ v2'.reserve1 = v2.reserve1 ]_vars

\* The last call was calculate_input(token1, amount_out) on a pool with both
\* reserves above zero.
LastInputForToken1 ==
    /\ v2Last.op = "calculate_input"
    /\ v2Last.token = v2Last.prev.token1
    /\ is_valid(v2Last.prev)

\* amount_in is an input whose quote calculate_output(token0, amount_in) is the
\* amount_out the last calculate_input call was asked for.
QuotedFrom(amount_in) ==
    calculate_output(v2Last.prev, v2Last.prev.token0, amount_in) = Ok(v2Last.amount_out)

LastSwapAtQuote ==
    /\ v2Last.op = "apply_swap"
    /\ v2Last.ok
    /\ calculate_output(v2Last.prev, v2Last.token, v2Last.amount_in) = Ok(v2Last.amount_out)

ReserveIn ==
    IF v2Last.token = v2Last.prev.token0 THEN v2Last.prev.reserve0 ELSE v2Last.prev.reserve1
ReserveOut ==
    IF v2Last.token = v2Last.prev.token0 THEN v2Last.prev.reserve1 ELSE v2Last.prev.reserve0

LastOutputOnValidPool ==
    /\ v2Last.op = "calculate_output"
    /\ v2Last.token \in {v2Last.prev.token0, v2Last.prev.token1}
    /\ v2Last.amount_in > 0
    /\ is_valid(v2Last.prev)

\* q = floor(amountIn*(1,000,000 - fee)*reserveOut /
\*           (reserveIn*1,000,000 + amountIn*(1,000,000 - fee))),
\* stated without a division: q*denominator <= numerator < (q + 1)*denominator,
\* numerator and denominator both reduced by the common factor of the two constants.
IsQuoteFloor(q, amount_in, reserve_in, reserve_out, fee) ==
    LET numerator == amount_in * FeeComplement(fee) * reserve_out
        denominator == reserve_in * FeeDenominator(fee) + amount_in * FeeComplement(fee)
    IN q * denominator <= numerator /\ numerator < (q + 1) * denominator

C13_PriceNonZeroTickInBounds ==
    /\ v3.sqrt_price_x96 # 0
    /\ v3.tick >= MIN_TICK
    /\ v3.tick <= MAX_TICK

\* The last call was apply_log of a Mint or Burn that decoded and returned Ok.
LastLiquidityEventOk(topic) ==
    /\ v3Last.op = "apply_log"
    /\ v3Last.log.topic = topic
    /\ v3Last.log.decodes
    /\ v3Last.ok

\* C14: after any sequence of Mint and Burn events on a pool whose tick map
\* starts with no zero-gross entry, no tick map entry has liquidityGross = 0: a
\* Mint of a positive amount leaves both its ticks in the map, and a Burn leaves
\* in the map no tick whose liquidityGross it has brought to zero.
C14_NoZeroGrossTick ==
    /\ \A i \in LiqTicks : IsSome(v3.ticks[i]) => Unwrap(v3.ticks[i]).liquidity_gross > 0
    /\ (LastLiquidityEventOk("Mint") /\ v3Last.log.amount > 0) =>
            /\ IsSome(v3.ticks[v3Last.log.tick_lower])
            /\ IsSome(v3.ticks[v3Last.log.tick_upper])

\* C14 witness: a Burn of a positive amount has removed both its ticks from the
\* map while another tick stays in it.
C14_Witness ==
    /\ LastLiquidityEventOk("Burn")
    /\ v3Last.log.amount > 0
    /\ ~IsSome(v3.ticks[v3Last.log.tick_lower])
    /\ ~IsSome(v3.ticks[v3Last.log.tick_upper])
    /\ \E i \in LiqTicks : IsSome(v3.ticks[i])


\* The calls each V3 variant reads, in the order fetch_v3_pool tries the
\* variants: concentrated-liquidity slot0, fee-in-state globalState, two-side
\* fee, plain Algebra, plain slot0.
VariantFields(v) ==
    V3Common \cup
    CASE v = 1 -> {"clp_slot0", "fee"}
      [] v = 2 -> {"fee_in_state_globalState"}
      [] v = 3 -> {"activeIncentive", "two_side_globalState"}
      [] v = 4 -> {"algebra_globalState", "algebra_fee"}
      [] v = 5 -> {"slot0", "fee"}

CompleteVariants == { v \in 1..5 : VariantFields(v) \subseteq fetchIn.ok }

FirstCompleteVariant == CHOOSE v \in CompleteVariants : \A w \in CompleteVariants : v <= w

\* C15: whenever the batch of fetch_v3_pool comes back and at least one variant
\* has every field it reads decoded, the fetch returns the pool of the first
\* such variant in the fixed order, a variant with an undecoded field being
\* passed over.
C15_FirstCompleteVariantWins ==
    (fetchIn.kind = "v3" /\ fetchOut # NoFetch /\ fetchIn.aggregate /\ CompleteVariants # {})
        => (fetchOut.kind = "ok" /\ fetchOut.variant = FirstCompleteVariant)

\* The call of each shape the reserves or the price are read from.
V2ReserveShapes == {"getReserves", "getReserves256"}
V3PriceShapes ==
    {"clp_slot0", "fee_in_state_globalState", "two_side_globalState", "algebra_globalState",
     "slot0"}

NoShapeDecodes ==
    /\ fetchIn.kind \in {"v2", "v3"}
    /\ fetchIn.aggregate
    /\ fetchIn.kind = "v2" => V2ReserveShapes \cap fetchIn.ok = {}
    /\ fetchIn.kind = "v3" => V3PriceShapes \cap fetchIn.ok = {}

\* C16: a discovery in which no reserve shape (V2) or price shape (V3) decodes
\* ends in an error value: it neither crashes nor returns a pool.
C16_NoShapeReturnsError ==
    (fetchOut # NoFetch /\ NoShapeDecodes) => fetchOut.kind = "err"


\* C17: the fee resolution of fetch_v2_pool is best-effort: once the tokens and a
\* reserve shape decoded and the final default is available, the fetch returns
\* a pool whatever failed in the steps before the default (the pair accessors,
\* the factory map and table, the factory fee getters, the Aero probe and the
\* reads they issue).
C17_FeeStepsNeverFailFetch ==
    (/\ fetchIn.kind = "v2"
     /\ fetchOut # NoFetch
     /\ fetchIn.aggregate
     /\ {"token0", "token1"} \subseteq fetchIn.ok
     /\ V2ReserveShapes \cap fetchIn.ok # {}
     /\ fetchIn.default)
        => fetchOut.kind = "ok"


SyncTopics == {"IUniswapV2Pair::Sync", "IV2PairUint256::Sync"}

\* The last operation applied a Sync log that decoded.
LastSyncApplied == v2Last.op = "apply_log" /\ v2Last.log.topic \in SyncTopics /\ v2Last.ok

\* C19: after a Sync is applied the reserves are the event's (reserve0,
\* reserve1) whatever the pool held before, and applying the same Sync a second
\* time in a row leaves the reserves as the first application left them.
C19_SyncOverwritesAndReplays ==
    LastSyncApplied =>
        /\ v2.reserve0 = v2Last.log.reserve0
        /\ v2.reserve1 = v2Last.log.reserve1
        /\ v2Last.replay =>
            (v2.reserve0 = v2Last.prev.reserve0 /\ v2.reserve1 = v2Last.prev.reserve1)

\* The same Sync, carrying two different reserves, was applied twice in a row.
C19_Witness ==
    /\ LastSyncApplied
    /\ v2Last.replay
    /\ v2Last.log.reserve0 = MaxReserve
    /\ v2Last.log.reserve1 = 1

\* The topics a V2 pool and a V3 pool do not apply.
UnappliedV2 == {"IUniswapV2Pair::Swap", "unknown"}
UnappliedV3 == {"unknown"}

\* C20: apply_log with a topic the pool does not apply (an unrecognized
\* signature for a V2 or a V3 pool, the V2 Swap for a V2 pool) returns success
\* and leaves every field of the pool as it was.
C20_UnappliedTopicLeavesPool ==
    [][ /\ (v2Last'.op = "apply_log" /\ v2Last'.log.topic \in UnappliedV2) =>
            (v2Last'.ok /\ v2' = v2Last'.prev)
        /\ (v3Last' # v3Last /\ v3Last'.op = "apply_log"
                /\ v3Last'.log.topic \in UnappliedV3) =>
            (v3Last'.ok /\ v3' = v3) ]_vars

\* A V2 pool whose reserves a Sync has set was handed a Swap, and a V3 pool
\* holding minted ticks was handed an unrecognized log.
C20_Witness ==
    /\ v2Last.op = "apply_log"
    /\ v2Last.log.topic = "IUniswapV2Pair::Swap"
    /\ v2.reserve0 = MaxReserve
    /\ v2.last_updated = 1
    /\ v3Last.op = "apply_log"
    /\ v3Last.log.topic = "unknown"
    /\ \E i \in LiqTicks : IsSome(v3.ticks[i])

(***************************************************************************)
(*                      CLAIMS: REGISTRY LOCKS                             *)
(***************************************************************************)

\* C18: while a task holds the write lock of pool X to apply an event, the task
\* that gets pool Y from the registry and quotes on it never waits, directly
\* or through add_pool, remove_pool or log_summary, for that task.
C18_WriteLockNeverBlocksOtherPool ==
    rwlocks["X"].writer = Some("applier")
        => "applier" \notin WaitsFor(BlockedBy("quoter"), Cardinality(Tasks))


\* C25: no interleaving of add_pool or remove_pool with get_pools_by_type,
\* get_v2_pools or get_v3_pools deadlocks: no task ever waits for a lock whose
\* holder waits, directly or through other tasks, for a lock the task holds.
C25_NoDeadlock ==
    \A t \in Tasks : t \notin WaitsFor(BlockedBy(t), Cardinality(Tasks))

\* C26: between PoolRegistry operations the two indices agree: an address is
\* listed under a type in by_type exactly when by_address holds a pool of that
\* type at that address, and no list names an address twice.
C26_IndicesAgree ==
    \A t \in PoolTypes :
        LET listed == get_addresses_by_type(by_type, t) IN
            /\ \A a \in Addresses :
                    (\E i \in 1..Len(listed) : listed[i] = a)
                        <=> (IsSome(by_address[a]) /\ Unwrap(by_address[a]).pool_type = t)
            /\ \A i, j \in 1..Len(listed) : listed[i] = listed[j] => i = j

\* C27: an apply_swap call that returns an error leaves the pool as it was,
\* last_updated included, on a V2 pool and on a V3 pool.
C27_FailedApplySwapLeavesPool ==
    [][/\ (v2Last'.op = "apply_swap" /\ ~v2Last'.ok) => v2' = v2
       /\ (v3Last'.op = "apply_swap" /\ ~v3Last'.ok) => v3' = v3]_vars

(***************************************************************************)
(*               CLAIMS: PATH REGISTRY, RESULTS OF set_paths               *)
(***************************************************************************)

\* C28: MultichainPathRegistry::set_paths ends with a result value, Ok or Err,
\* and never panics, whatever the batch: a path with no hop and a chain id
\* without PathRegistry included.
C28_SetPathsNeverPanics ==
    LastSetPaths => pathLast.res \in {"ok"} \cup ReturnedErrors

\* Every entry of the batch is on the same chain.
SingleChainBatch(batch) ==
    \A k1, k2 \in 1..Len(batch) : batch[k1].chain_id = batch[k2].chain_id

\* At least one entry of the batch has a path.
BatchHasPath(batch) == \E k \in 1..Len(batch) : batch[k].paths # <<>>

\* C29: a set_paths batch whose entries are all on one chain, one of them with
\* a path, returns an error and creates or changes no cache entry.
C29_SingleChainBatchRejected ==
    (LastSetPaths /\ SingleChainBatch(pathLast.batch) /\ BatchHasPath(pathLast.batch)) =>
        /\ pathLast.res \in ReturnedErrors
        /\ path_registry = pathPrev

\* The same with the calls that panic left out: what is left of C29 once the
\* unwraps C28 is about are set aside.
SingleChainBatchRejectedUnlessPanic ==
    (LastSetPaths /\ SingleChainBatch(pathLast.batch) /\ BatchHasPath(pathLast.batch)
        /\ pathLast.res # "panic") =>
        /\ pathLast.res \in ReturnedErrors
        /\ path_registry = pathPrev

(***************************************************************************)
(*                 CLAIMS: V3 LIQUIDITY, V2 FEE AND QUOTES                 *)
(***************************************************************************)

\* The step applied a Mint or Burn log that decoded.
LiquidityEventStep(topic) ==
    /\ v3Last'.op = "apply_log"
    /\ v3Last'.log.topic = topic
    /\ v3Last'.log.decodes

\* The pool's tick before the step lies in the range of the step's log.
TickInRange == v3.tick >= v3Last'.log.tick_lower /\ v3.tick < v3Last'.log.tick_upper

ValidRange == v3Last'.log.tick_lower < v3Last'.log.tick_upper

C22_FetchedFeeBelowDenominator ==
    (fetchIn.kind = "v2" /\ fetchOut.kind = "ok")
        => (fetchOut.fee >= 0 /\ fetchOut.fee < FEE_DENOMINATOR)


\* C23: get_y ends either with a value y' that is the least y with
\* f(x0, y) >= xy, that is f(x0, y') >= xy and f(x0, y' - 1) < xy, or, when
\* its 255 iterations did not converge, with a math error.
C23_GetYMinimalOrError ==
    curveOut # NoCurve =>
        \/ curveOut.kind = "err"
        \/ /\ curveOut.kind = "value"
           /\ curve_f(curveIn.x0, curveOut.y) >= curveIn.xy
           /\ curve_f(curveIn.x0, curveOut.y - 1) < curveIn.xy


\* The elements of a sequence.
Range(seq) == { seq[n] : n \in 1..Len(seq) }

\* The bits of the worked example: 5, 130 and 255 of word 0.
ExampleBits == {<<0, 5>>, <<0, 130>>, <<0, 255>>}

\* C24: the ticks the flat bitmap scan of fetch_v3_ticks collects are exactly
\* (word_pos * 256 + i) * tickSpacing for every bit i set in a fetched word
\* word_pos, each once; bits 5, 130 and 255 of word 0 give 5, 130 and 255 times
\* tickSpacing.
C24_ScanYieldsSetBits ==
    (fetchIn.kind = "ticks" /\ fetchOut.kind = "ok") =>
        /\ Range(fetchOut.tick_indices) =
                { (b[1] * 256 + b[2]) * fetchIn.tick_spacing : b \in fetchIn.set_bits }
        /\ Len(fetchOut.tick_indices) = Cardinality(fetchIn.set_bits)
        /\ fetchIn.set_bits = ExampleBits =>
                fetchOut.tick_indices = <<5 * fetchIn.tick_spacing, 130 * fetchIn.tick_spacing,
                                          255 * fetchIn.tick_spacing>>

\* The scan ran on bitmaps with bits set in a word below zero and in word 0.
C24_Witness ==
    /\ fetchIn.kind = "ticks"
    /\ fetchOut.kind = "ok"
    /\ ExampleBits \cup {<<-1, 255>>} \subseteq fetchIn.set_bits
    /\ Len(fetchOut.tick_indices) >= 4

\* The reserve of the token the quote of wideIn asks for, and of the other token.
WideReserveOut ==
    IF wideIn.token_out = wideIn.pool.token0 THEN wideIn.pool.reserve0
    ELSE wideIn.pool.reserve1
WideReserveIn ==
    IF wideIn.token_out = wideIn.pool.token0 THEN wideIn.pool.reserve1
    ELSE wideIn.pool.reserve0

\* The quote has run on a pool and for an output the claim speaks of: a token of
\* the pool, 0 < amountOut < reserveOut (the reserves and fees of the model are
\* all positive and below 1,000,000).
QuotedWithinReserve ==
    /\ wideOut # NoWide
    /\ wideIn.token_out \in {wideIn.pool.token0, wideIn.pool.token1}
    /\ ~IsZeroU256(wideIn.amount_out)
    /\ LtU256(wideIn.amount_out, WideReserveOut)

\* C30: for every amountOut with 0 < amountOut < reserveOut the input
\* x = calculate_input(tokenOut, amountOut) is sufficient:
\* calculate_output(tokenIn, x) succeeds and is >= amountOut, in both directions.
C30_InputIsSufficient ==
    QuotedWithinReserve =>
        /\ wideOut.input.kind = "ok"
        /\ wideOut.output.kind = "ok"
        /\ ~LtU256(wideOut.output.val, wideIn.amount_out)

\* x * (1,000,000 - fee) * reserveOut, the numerator of calculate_output, does
\* not fit a U256.
NumeratorWraps ==
    /\ wideOut.input.kind = "ok"
    /\ Overflows(WideMul(WideMul(wideOut.input.val,
                                 WrappingSub(U256From(FEE_DENOMINATOR), wideIn.pool.fee)),
                         WideReserveOut))

\* Where that numerator fits, the input is sufficient.
InputIsSufficientUnlessWrapped ==
    (QuotedWithinReserve /\ ~NumeratorWraps) =>
        /\ wideOut.input.kind = "ok"
        /\ wideOut.output.kind = "ok"
        /\ ~LtU256(wideOut.output.val, wideIn.amount_out)

====
